---------------------------- MODULE Spec2Model ----------------------------
(***************************************************************************)
(* Model of sgit, a cobra/pflag command-line wrapper around git.           *)
(*                                                                         *)
(* A string is a sequence of symbols.  The symbols "-" and "=" are the     *)
(* characters the flag parser inspects; a flag name, a shorthand letter or *)
(* a word is one symbol.  Go's string concatenation is \o, a prefix test   *)
(* is a test on the leading symbols.                                       *)
(***************************************************************************)
EXTENDS Integers, Sequences, FiniteSets, TLC

VARIABLES
    pc,          \* position of the process in its control flow
    osArgs,      \* os.Args[1:], the user's argument vector
    apiKey,      \* viper "upstage_api_key" (in-memory setting)
    cmd,         \* the cobra command that was dispatched
    flags,       \* pflag "actual": explicitly set flag name -> Value.String()
    args,        \* positional arguments handed to the Run function
    gitCalls,    \* git subprocesses started so far: [argv, by]
    gitExit,     \* result of the last git subprocess
    llmCalls,    \* HTTP requests sent to the LLM so far: [task, key]
    setupRuns,   \* number of times setupConfig was entered
    out,         \* messages printed so far
    exitCode,    \* process exit code, Running while the process runs
    loc,         \* locals of the running handler
    lib          \* a call of a library function followed on its own: its
                 \* inputs, its locals and its result

vars == <<pc, osArgs, apiKey, cmd, flags, args, gitCalls, gitExit, llmCalls,
          setupRuns, out, exitCode, loc, lib>>

-----------------------------------------------------------------------------
(* Bounds *)

MaxArgv == 3

\* longest text handed to TruncateToWordLimit, in characters
MaxText == 4

\* largest word limit handed to TruncateToWordLimit
MaxWords == 2

\* the word budget of the token counter; 27000 in the source, scaled down
MaxInputWords == 4

\* a section handed to SplitContent has at most MaxInputWords + Excess words
Excess == 1

\* a response text handed to cleanResponse is made of at most MaxPieces pieces
MaxPieces == 5

\* a stream has at most MaxLines lines
MaxLines == 4

\* the spinner is followed for at most MaxFrames frames
MaxFrames == 2

-----------------------------------------------------------------------------
(* Strings *)

Str(x) == <<x>>

Long(n) == <<"-", "-", n>>

Short(c) == <<"-", c>>

LongVal(n, v) == <<"-", "-", n, "=">> \o v

DashDash == <<"-", "-">>

RECURSIVE Flatten(_)
Flatten(ss) == IF ss = <<>> THEN <<>> ELSE Head(ss) \o Flatten(Tail(ss))

RECURSIVE IndexOf(_, _, _)
\* position of the first symbol c of s at or after i, 0 when there is none
IndexOf(s, c, i) ==
    IF i > Len(s) THEN 0
    ELSE IF s[i] = c THEN i
    ELSE IndexOf(s, c, i + 1)

BoundedSeq(S, n) == UNION {[1..k -> S] : k \in 0..n}

-----------------------------------------------------------------------------
(* Flag tables: the flags each command declares, in the order in which     *)
(* FlagSet.Visit walks them (sorted by name), with the two persistent      *)
(* flags of the root command that cobra merges into every command.         *)

B(n, s) == [name |-> n, sh |-> s, type |-> "bool"]

S(n, s) == [name |-> n, sh |-> s, type |-> "string"]

PersistentFlagNames == {"config", "lang"}

addFlags ==
    << B("ai", ""), B("all", "A"), B("all-ai", ""), B("chmod", ""),
       S("config", ""), B("dry-run", "n"), B("dry-run-ai", ""),
       B("force-ai", ""), B("ignore-errors", ""), B("ignore-missing", ""),
       B("ignore-removal", ""), B("intent-to-add", "N"), S("lang", ""),
       B("no-warn-embedded-repo", ""), B("patch", "p"),
       B("pathspec-file-nul", ""), S("pathspec-from-file", ""),
       B("refresh", ""), B("renormalize", ""), B("update", "u"),
       B("verbose", "v") >>

commitFlags ==
    << B("ai", ""), B("all", "a"), B("allow-empty", ""),
       B("allow-empty-message", ""), B("amend", ""), S("author", ""),
       S("config", ""), S("date", ""), B("edit", ""), S("file", ""),
       S("fixup", ""), B("interactive", "i"), S("lang", ""),
       S("message", "m"), B("no-ai", ""), B("no-edit", ""), B("patch", "p"),
       B("reset-author", ""), B("signoff", ""), B("skip-editor", ""),
       S("squash", ""), S("template", ""), B("verbose", "v") >>

diffFlags ==
    << B("cached", ""), B("check", ""), S("color", ""), S("color-words", ""),
       S("config", ""), B("ignore-all-space", ""), B("ignore-blank-lines", ""),
       B("ignore-space-change", ""), S("lang", ""), B("name-only", ""),
       B("name-status", ""), B("no-ai", ""), B("no-color", ""),
       B("no-index", ""), B("numstat", ""), B("patch", "p"),
       B("shortstat", ""), B("staged", ""), B("stat", ""), S("unified", "U"),
       S("word-diff", ""), S("ws-error-highlight", "") >>

logFlags ==
    << S("abbrev-commit", ""), S("after", ""), B("ai-analysis", ""),
       S("ai-timeframe", ""), B("all", ""), S("author", ""), S("before", ""),
       S("committer", ""), S("config", ""), B("decorate", ""),
       B("first-parent", ""), S("format", ""), B("graph", ""), S("grep", ""),
       S("lang", ""), B("merges", ""), B("name-only", ""),
       B("name-status", ""), B("no-merges", ""), S("number", "n"),
       B("oneline", ""), S("pretty", "p"), B("reverse", ""),
       B("shortstat", ""), S("since", "s"), S("skip", ""), B("stat", ""),
       S("until", "") >>

mergeFlags ==
    << B("ai-help", ""), B("ai-message", ""),
       B("allow-unrelated-histories", ""), B("commit", ""), S("config", ""),
       B("edit", ""), B("ff", ""), B("ff-only", ""), S("lang", ""),
       B("log", ""), S("message", "m"), B("no-commit", ""), B("no-edit", ""),
       B("no-ff", ""), B("no-log", ""), B("no-progress", ""),
       B("no-squash", ""), B("no-stat", ""), B("no-summary", ""),
       B("no-verify-signatures", ""), B("progress", ""), B("quiet", ""),
       B("squash", ""), B("stat", ""), S("strategy", "s"),
       S("strategy-option", "X"), B("summary", ""), B("verbose", ""),
       B("verify-signatures", "") >>

FlagCommands == {"add", "commit", "diff", "log", "merge"}

Table(c) ==
    CASE c = "add" -> addFlags
      [] c = "commit" -> commitFlags
      [] c = "diff" -> diffFlags
      [] c = "log" -> logFlags
      [] c = "merge" -> mergeFlags

Names(T) == {T[i].name : i \in 1..Len(T)}

Shorthands(T) == {T[i].sh : i \in 1..Len(T)} \ {""}

ByName(T, n) == T[CHOOSE i \in 1..Len(T) : T[i].name = n]

BySh(T, c) == T[CHOOSE i \in 1..Len(T) : T[i].sh = c]

\* the flags wrapper-only by the claims' list, per command
AugmentationFlags(c) ==
    CASE c = "add" -> {"ai", "all-ai", "force-ai", "dry-run-ai"}
      [] c = "commit" -> {"no-ai", "ai", "interactive", "skip-editor"}
      [] c = "diff" -> {"no-ai"}
      [] c = "log" -> {"ai-analysis", "ai-timeframe"}
      [] c = "merge" -> {"ai-help", "ai-message"}


-----------------------------------------------------------------------------
(* Flag parsing: FlagSet.Parse of pflag over a command's table, as cobra   *)
(* runs it before the Run function.  The result is the set of explicitly   *)
(* set flags with their Value.String(), the positional arguments, and      *)
(* whether parsing failed.                                                 *)

NoFlags == [n \in {} |-> <<>>]

ParseStart == [err |-> FALSE, set |-> NoFlags, args |-> <<>>]

ParseFail(st) == [st EXCEPT !.err = TRUE]

BoolTrue == <<"true">>

BoolFalse == <<"false">>

\* Value.Set followed by Value.String(): a bool goes through
\* strconv.ParseBool and FormatBool, a string is stored as it is
SetFlag(st, f, v) ==
    IF f.type = "bool"
    THEN IF v \in {BoolTrue, <<"1">>, <<"t">>}
         THEN [st EXCEPT !.set = (f.name :> BoolTrue) @@ @]
         ELSE IF v \in {BoolFalse, <<"0">>, <<"f">>}
         THEN [st EXCEPT !.set = (f.name :> BoolFalse) @@ @]
         ELSE ParseFail(st)
    ELSE [st EXCEPT !.set = (f.name :> v) @@ @]

\* parseLongArg: the result and the arguments left to parse
ParseLongArg(T, s, rest, st) ==
    LET body == SubSeq(s, 3, Len(s))
        eq == IndexOf(body, "=", 1)
        nm == IF eq = 0 THEN body ELSE SubSeq(body, 1, eq - 1)
    IN  IF body[1] \in {"-", "="} THEN <<ParseFail(st), <<>>>>
        ELSE IF ~(Len(nm) = 1 /\ nm[1] \in Names(T))
        THEN <<ParseFail(st), <<>>>>
        ELSE LET f == ByName(T, nm[1])
             IN  IF eq # 0
                 THEN <<SetFlag(st, f, SubSeq(body, eq + 1, Len(body))), rest>>
                 ELSE IF f.type = "bool"
                 THEN <<SetFlag(st, f, BoolTrue), rest>>
                 ELSE IF rest # <<>>
                 THEN <<SetFlag(st, f, Head(rest)), Tail(rest)>>
                 ELSE <<ParseFail(st), <<>>>>

RECURSIVE ParseShortArg(_, _, _, _)
\* parseShortArg: parseSingleShortArg applied to the cluster sh, letter by
\* letter
ParseShortArg(T, sh, rest, st) ==
    IF sh = <<>> \/ st.err THEN <<st, rest>>
    ELSE IF sh[1] \notin Shorthands(T) THEN <<ParseFail(st), <<>>>>
    ELSE LET f == BySh(T, sh[1])
         IN  IF Len(sh) > 2 /\ sh[2] = "="
             THEN <<SetFlag(st, f, SubSeq(sh, 3, Len(sh))), rest>>
             ELSE IF f.type = "bool"
             THEN ParseShortArg(T, Tail(sh), rest, SetFlag(st, f, BoolTrue))
             ELSE IF Len(sh) > 1
             THEN <<SetFlag(st, f, Tail(sh)), rest>>
             ELSE IF rest # <<>>
             THEN <<SetFlag(st, f, Head(rest)), Tail(rest)>>
             ELSE <<ParseFail(st), <<>>>>

RECURSIVE ParseArgs(_, _, _)
\* parseArgs, with interspersed positional arguments (the default)
ParseArgs(T, av, st) ==
    IF av = <<>> \/ st.err THEN st
    ELSE LET s == Head(av)
             rest == Tail(av)
         IN  IF Len(s) = 0 \/ s[1] # "-" \/ Len(s) = 1
             THEN ParseArgs(T, rest, [st EXCEPT !.args = Append(@, s)])
             ELSE IF s[2] = "-"
             THEN IF Len(s) = 2
                  THEN [st EXCEPT !.args = @ \o rest]
                  ELSE LET r == ParseLongArg(T, s, rest, st)
                       IN  ParseArgs(T, r[2], r[1])
             ELSE LET r == ParseShortArg(T, Tail(s), rest, st)
                  IN  ParseArgs(T, r[2], r[1])

Parse(c, av) == ParseArgs(Table(c), av, ParseStart)

-----------------------------------------------------------------------------
(* Reconstruction of git argument vectors from the parsed flags *)

RECURSIVE Visited(_, _, _)
\* FlagSet.Visit: the explicitly set flags of table T from index i on, in
\* the table's (sorted) order
Visited(T, F, i) ==
    IF i > Len(T) THEN <<>>
    ELSE IF T[i].name \in DOMAIN F
    THEN <<T[i]>> \o Visited(T, F, i + 1)
    ELSE Visited(T, F, i + 1)

\* the declared add flags whose name has the suffix "-ai"
HasSuffixAi(n) == n \in {"all-ai", "dry-run-ai", "force-ai"}

\* what one visited flag appends: short form for a bool with a shorthand,
\* --name=value for every valued flag (add, diff)
EmitShortBool(f, v) ==
    IF f.type = "bool" /\ v = BoolTrue
    THEN IF f.sh # "" THEN <<Short(f.sh)>> ELSE <<Long(f.name)>>
    ELSE IF f.type # "bool" /\ v # <<>>
    THEN <<LongVal(f.name, v)>>
    ELSE <<>>

\* the same with a valued flag that has a shorthand given as two
\* arguments, "-s" and the value (log, merge)
EmitShortAll(f, v) ==
    IF f.type = "bool" /\ v = BoolTrue
    THEN IF f.sh # "" THEN <<Short(f.sh)>> ELSE <<Long(f.name)>>
    ELSE IF f.type # "bool" /\ v # <<>>
    THEN IF f.sh # "" THEN <<Short(f.sh), v>> ELSE <<LongVal(f.name, v)>>
    ELSE <<>>

\* commit: always the long form
EmitLong(f, v) ==
    IF f.type = "bool" /\ v = BoolTrue
    THEN <<Long(f.name)>>
    ELSE IF f.type # "bool" /\ v # <<>>
    THEN <<LongVal(f.name, v)>>
    ELSE <<>>

AddFlagArgs(F) ==
    LET vis == Visited(addFlags, F, 1)
    IN  Flatten([i \in 1..Len(vis) |->
            IF HasSuffixAi(vis[i].name) \/ vis[i].name = "ai" THEN <<>>
            ELSE EmitShortBool(vis[i], F[vis[i].name])])

\* a skip list that misses one of the wrapper's flags
CommitSkipped_MissesAi(n) == n \in {"no-ai", "interactive", "skip-editor"}

CommitSkipped(n) == n \in {"no-ai", "interactive", "skip-editor", "ai"}

CommitFlagArgs(F) ==
    LET vis == Visited(commitFlags, F, 1)
    IN  Flatten([i \in 1..Len(vis) |->
            IF CommitSkipped(vis[i].name) THEN <<>>
            ELSE EmitLong(vis[i], F[vis[i].name])])

CommitFinalFlagArgs(F) ==
    LET vis == Visited(commitFlags, F, 1)
    IN  Flatten([i \in 1..Len(vis) |->
            IF CommitSkipped(vis[i].name) \/ vis[i].name = "message" THEN <<>>
            ELSE EmitLong(vis[i], F[vis[i].name])])

DiffFlagArgs(F) ==
    LET vis == Visited(diffFlags, F, 1)
    IN  Flatten([i \in 1..Len(vis) |->
            IF vis[i].name = "no-ai" THEN <<>>
            ELSE EmitShortBool(vis[i], F[vis[i].name])])

LogFlagArgs(F) ==
    LET vis == Visited(logFlags, F, 1)
    IN  Flatten([i \in 1..Len(vis) |->
            IF vis[i].name \in {"ai-analysis", "ai-timeframe"} THEN <<>>
            ELSE EmitShortAll(vis[i], F[vis[i].name])])

MergeFlagArgs(F) ==
    LET vis == Visited(mergeFlags, F, 1)
    IN  Flatten([i \in 1..Len(vis) |->
            IF vis[i].name \in {"ai-help", "ai-message"} THEN <<>>
            ELSE EmitShortAll(vis[i], F[vis[i].name])])

\* gitArgs of executeGitAddPassthrough
AddPassthroughArgs(F, a) == <<Str("add")>> \o AddFlagArgs(F) \o a

\* gitArgs of executeGitCommitPassthrough
CommitPassthroughArgs(F, a) == <<Str("commit")>> \o CommitFlagArgs(F) \o a

\* gitArgs of executeGitCommitWithFlags
CommitWithFlagsArgs(message, F) ==
    <<Str("commit"), Short("m"), message>> \o CommitFinalFlagArgs(F)

\* gitArgs of executeGitDiffPassthrough and of getGitDiffOutput
DiffPassthroughArgs(F, a) == <<Str("diff")>> \o DiffFlagArgs(F) \o a

\* gitArgs of executeGitLogPassthrough
LogPassthroughArgs(F, a) == <<Str("log")>> \o LogFlagArgs(F) \o a

\* a builder that puts the positional arguments before the flags
buildMergeArgs_ArgsFirst(F, a) == <<Str("merge")>> \o a \o MergeFlagArgs(F)

\* gitArgs of buildMergeArgs
buildMergeArgs(F, a) == <<Str("merge")>> \o MergeFlagArgs(F) \o a

\* mergeArgs of runMergeWithAI
MergeAttemptArgs(F, a) == Append(buildMergeArgs(F, a), Long("no-commit"))

\* strings.HasPrefix(arg, "-n") || HasPrefix(arg, "--number") ||
\* HasPrefix(arg, "-") && len(arg) > 1 && arg[1] is a digit
Digits == {"0", "1", "2", "3", "4", "5", "6", "7", "8", "9"}

\* a test that knows the forms -n and --number only
IsNumberLimit_FlagOnly(s) ==
    \/ Len(s) >= 2 /\ s[1] = "-" /\ s[2] = "n"
    \/ Len(s) >= 3 /\ s[1] = "-" /\ s[2] = "-" /\ s[3] = "number"

IsNumberLimit(s) ==
    \/ Len(s) >= 2 /\ s[1] = "-" /\ s[2] = "n"
    \/ Len(s) >= 3 /\ s[1] = "-" /\ s[2] = "-" /\ s[3] = "number"
    \/ Len(s) >= 2 /\ s[1] = "-" /\ s[2] \in Digits

\* gitArgs of getGitLogOutput
LogOutputArgs(F, a) ==
    LET base == LogPassthroughArgs(F, a)
    IN  IF \E i \in 1..Len(base) : IsNumberLimit(base[i])
        THEN base
        ELSE Append(base, <<"-", "2", "0">>)

PassthroughArgs(c, F, a) ==
    CASE c = "add" -> AddPassthroughArgs(F, a)
      [] c = "commit" -> CommitPassthroughArgs(F, a)
      [] c = "diff" -> DiffPassthroughArgs(F, a)
      [] c = "log" -> LogPassthroughArgs(F, a)
      [] c = "merge" -> buildMergeArgs(F, a)


-----------------------------------------------------------------------------
(* Inputs and environment *)

\* exit codes a git subprocess ends with
GitExitCodes == {0, 1, 128}

\* outcome of exec.Cmd.Run: an exit code, or the process could not be
\* started (an error that is not an *exec.ExitError)
GitResults ==
    {[started |-> TRUE, code |-> c] : c \in GitExitCodes}
        \cup {[started |-> FALSE, code |-> 0]}

\* err == nil of exec.Cmd.Run
RunOk(r) == r.started /\ r.code = 0

NoResult == [started |-> FALSE, code |-> 0]

\* the credential viper holds after initConfig
ConfigKeys == {"", "up_key"}

\* what the user types on a command line, per command
InputTokens(c) ==
    CASE c = "add" ->
            { Long("all-ai"), Long("force-ai"), Long("dry-run-ai"), Long("ai"),
              Short("v"), Long("verbose"), Long("refresh"),
              LongVal("pathspec-from-file", Str("x")), DashDash, Str("f1") }
      [] c = "commit" ->
            { Long("no-ai"), Long("ai"), Short("i"), Long("skip-editor"),
              LongVal("message", Str("x")), LongVal("message", <<>>),
              Short("a"), Short("v"), Long("amend"), Str("f1") }
      [] c = "diff" ->
            { Long("no-ai"), Short("p"), Long("cached"),
              LongVal("cached", BoolFalse), LongVal("color", Str("x")),
              LongVal("lang", Str("ko")), Short("U"), DashDash, Str("f1") }
      [] c = "log" ->
            { Long("ai-analysis"), LongVal("ai-timeframe", Str("x")),
              Long("oneline"), Short("n"), Str("5"),
              LongVal("author", Str("x")), DashDash, Long("graph") }
      [] c = "merge" ->
            { Long("ai-help"), Long("ai-message"), Long("no-ff"), Short("s"),
              LongVal("message", Str("x")), Long("verbose"), DashDash,
              Str("br") }
      [] c = "git" -> { Str("status"), Short("s"), Long("no-ai") }
      [] c = "foo" -> { Long("bar"), Str("git"), Short("v") }
      [] c = "config" -> {}
      [] c = "version" -> {}

\* the command words tried; "foo" is not a command of sgit
InputCommands ==
    {"add", "commit", "diff", "log", "merge", "git", "foo", "config", "version"}

Argvs ==
    {<<>>} \cup UNION {{<<Str(c)>> \o t : t \in BoundedSeq(InputTokens(c), MaxArgv)} :
                        c \in InputCommands}

\* the commands registered on rootCmd
KnownCommands ==
    {"add", "commit", "diff", "log", "merge", "git", "config", "version"}

NoLocals ==
    [ret |-> "", generated |-> <<>>, finalMessage |-> <<>>, untracked |-> <<>>,
     idx |-> 0, filesToAdd |-> <<>>, conflicts |-> <<>>, captured |-> <<>>,
     mode |-> "", userInput |-> <<>>, editorErr |-> FALSE, llmErrs |-> 0,
     seen |-> <<>>, response |-> ""]

\* no call of the solar package is followed on its own
NoCall == [fn |-> ""]

Init ==
    /\ pc = "start"
    /\ osArgs \in Argvs
    /\ apiKey = ""
    /\ cmd = ""
    /\ flags = NoFlags
    /\ args = <<>>
    /\ gitCalls = <<>>
    /\ gitExit = NoResult
    /\ llmCalls = <<>>
    /\ setupRuns = 0
    /\ out = <<>>
    /\ exitCode = 0
    /\ loc = NoLocals
    /\ lib = NoCall

-----------------------------------------------------------------------------
(* Helpers of the actions *)

GitCall(argv, by) == [argv |-> argv, by |-> by]

\* the process ends with the given exit code after printing msgs
Exit(code, msgs) ==
    /\ pc' = "done"
    /\ exitCode' = code
    /\ out' = out \o msgs

\* the value of a bool flag variable bound with BoolVar / GetBool
FlagTrue(F, n) == n \in DOMAIN F /\ F[n] = BoolTrue

\* the value of a string flag variable, "" by default
FlagValue(F, n) == IF n \in DOMAIN F THEN F[n] ELSE <<>>

IsFlagToken(s) == Len(s) >= 2 /\ s[1] = "-"

RECURSIVE CommandIndex(_, _)
\* Command.Find: the index of the first argument that is not a flag, 0 when
\* there is none; a persistent valued flag given without "=" takes the next
\* argument with it
CommandIndex(av, i) ==
    IF i > Len(av) THEN 0
    ELSE IF av[i] = DashDash THEN 0
    ELSE IF IsFlagToken(av[i])
    THEN IF /\ Len(av[i]) = 3 /\ av[i][2] = "-"
            /\ av[i][3] \in PersistentFlagNames
         THEN CommandIndex(av, i + 2)
         ELSE CommandIndex(av, i + 1)
    ELSE i

\* argsMinusFirstX: the argument vector without the command word
WithoutIndex(av, i) == SubSeq(av, 1, i - 1) \o SubSeq(av, i + 1, Len(av))


-----------------------------------------------------------------------------
(* Dispatch and the two verbatim passthroughs *)

\* rootCmd.Execute() as called by Execute: find the command, parse its
\* flags, run initConfig
Execute ==
    /\ pc = "start"
    /\ LET i == CommandIndex(osArgs, 1)
           word == IF i = 0 THEN "" ELSE osArgs[i][1]
           rest == WithoutIndex(osArgs, i)
       IN  IF i = 0
           THEN /\ Exit(0, <<"usage">>)
                /\ UNCHANGED <<apiKey, cmd, flags, args, loc, setupRuns>>
           ELSE IF word \notin KnownCommands
           THEN \* err: unknown command; handled by the fallback of Execute
                /\ pc' = "unknown"
                /\ UNCHANGED <<apiKey, cmd, flags, args, loc, setupRuns, out,
                               exitCode>>
           ELSE IF word = "git"
           THEN /\ pc' = "git"
                /\ cmd' = word
                /\ args' = rest
                /\ apiKey' \in ConfigKeys
                /\ UNCHANGED <<flags, loc, setupRuns, out, exitCode>>
           ELSE IF word = "version"
           THEN /\ Exit(0, <<"sgit version">>)
                /\ cmd' = word
                /\ apiKey' \in ConfigKeys
                /\ UNCHANGED <<flags, args, loc, setupRuns>>
           ELSE IF word = "config"
           THEN /\ pc' = "setup"
                /\ cmd' = word
                /\ apiKey' \in ConfigKeys
                /\ loc' = [loc EXCEPT !.ret = "config"]
                /\ setupRuns' = setupRuns + 1
                /\ UNCHANGED <<flags, args, out, exitCode>>
           ELSE LET P == Parse(word, rest)
                IN  IF P.err
                    THEN /\ Exit(1, <<"Error: invalid flags">>)
                         /\ UNCHANGED <<apiKey, cmd, flags, args, loc,
                                        setupRuns>>
                    ELSE /\ pc' = "run"
                         /\ cmd' = word
                         /\ flags' = P.set
                         /\ args' = P.args
                         /\ apiKey' \in ConfigKeys
                         /\ UNCHANGED <<loc, setupRuns, out, exitCode>>
    /\ UNCHANGED <<osArgs, gitCalls, gitExit, llmCalls>>
    /\ UNCHANGED lib

\* a propagation that keeps only success or failure
VerbatimExit_Flattened(r) == IF r.started /\ r.code = 0 THEN 0 ELSE 1

\* exit status after gitCmd.Run() in the verbatim passthroughs:
\* os.Exit(exitError.ExitCode()), os.Exit(1) for any other error
VerbatimExit(r) == IF r.started THEN r.code ELSE 1

\* the unknown-command fallback of Execute: git runs with os.Args[1:]
ExecuteUnknown ==
    /\ pc = "unknown"
    /\ Len(osArgs) > 0
    /\ \E r \in GitResults :
        /\ gitCalls' = Append(gitCalls, GitCall(osArgs, "Execute"))
        /\ gitExit' = r
        /\ Exit(VerbatimExit(r), <<>>)
    /\ UNCHANGED <<osArgs, apiKey, cmd, flags, args, llmCalls, setupRuns, loc>>
    /\ UNCHANGED lib

\* gitCmd.Run -> executeGitCommand(args)
executeGitCommand ==
    /\ pc = "git"
    /\ \E r \in GitResults :
        /\ gitCalls' = Append(gitCalls, GitCall(args, "executeGitCommand"))
        /\ gitExit' = r
        /\ Exit(VerbatimExit(r), <<>>)
    /\ UNCHANGED <<osArgs, apiKey, cmd, flags, args, llmCalls, setupRuns, loc>>
    /\ UNCHANGED lib

-----------------------------------------------------------------------------
(* The Run functions of the flag-parsing commands *)

RevParse == GitCall(<<Str("rev-parse"), Long("git-dir")>>, "isGitRepository")

NotARepo == Exit(1, <<"Error: not a git repository">>)

\* shouldBypassAIForAdd: one of the listed git flags was changed
AddBypassFlags ==
    {"all", "update", "patch", "verbose", "dry-run", "ignore-errors",
     "ignore-missing", "no-warn-embedded-repo", "renormalize", "chmod",
     "intent-to-add", "refresh", "ignore-removal", "pathspec-from-file",
     "pathspec-file-nul"}

shouldBypassAIForAdd(F) == \E n \in AddBypassFlags : n \in DOMAIN F

\* where runSmartAdd goes after the repository check
AddRoute(F, a) ==
    IF (Len(a) > 0 /\ ~FlagTrue(F, "ai"))
           \/ (shouldBypassAIForAdd(F) /\ ~FlagTrue(F, "ai"))
    THEN "passthrough"
    ELSE IF ~FlagTrue(F, "all-ai") /\ Len(a) = 0
    THEN "hint"
    ELSE IF ~FlagTrue(F, "force-ai") THEN "ensure"
    ELSE "add_untracked"

runSmartAdd ==
    /\ pc = "run" /\ cmd = "add"
    /\ gitCalls' = Append(gitCalls, RevParse)
    /\ \E inRepo \in BOOLEAN :
        IF ~inRepo THEN NotARepo
        ELSE IF AddRoute(flags, args) = "hint"
        THEN Exit(0, <<"Use 'sgit add --all-ai' for AI analysis of untracked files">>)
        ELSE /\ pc' = AddRoute(flags, args)
             /\ UNCHANGED <<out, exitCode>>
    /\ UNCHANGED <<osArgs, apiKey, cmd, flags, args, gitExit, llmCalls,
                   setupRuns, loc>>
    /\ UNCHANGED lib

\* a bypass test that looks at the message only
CommitBypass_MessageOnly(F) == FlagValue(F, "message") # <<>>

\* the bypass test of runCommit: commitMessage != "" || skipLLM
CommitBypass(F) == FlagValue(F, "message") # <<>> \/ FlagTrue(F, "no-ai")

StageAll == GitCall(<<Str("add"), Short("u")>>, "runCommit")

runCommit ==
    /\ pc = "run" /\ cmd = "commit"
    /\ \E inRepo \in BOOLEAN :
        IF ~inRepo
        THEN /\ gitCalls' = Append(gitCalls, RevParse)
             /\ NotARepo
             /\ UNCHANGED gitExit
        ELSE IF FlagTrue(flags, "all")
        THEN \E r \in GitResults :
                /\ gitCalls' = gitCalls \o <<RevParse, StageAll>>
                /\ gitExit' = r
                /\ IF ~RunOk(r)
                   THEN Exit(1, <<"Staging all modified and deleted files...",
                                  "Error: error staging files with -a">>)
                   ELSE /\ pc' = IF CommitBypass(flags) THEN "passthrough"
                                 ELSE "commit_check"
                        /\ out' = Append(out,
                                     "Staging all modified and deleted files...")
                        /\ UNCHANGED exitCode
        ELSE /\ gitCalls' = Append(gitCalls, RevParse)
             /\ pc' = IF CommitBypass(flags) THEN "passthrough"
                      ELSE "commit_check"
             /\ UNCHANGED <<gitExit, out, exitCode>>
    /\ UNCHANGED <<osArgs, apiKey, cmd, flags, args, llmCalls, setupRuns, loc>>
    /\ UNCHANGED lib

runDiff ==
    /\ pc = "run" /\ cmd = "diff"
    /\ gitCalls' = Append(gitCalls, RevParse)
    /\ \E inRepo \in BOOLEAN :
        IF ~inRepo THEN NotARepo
        ELSE /\ pc' = IF ~FlagTrue(flags, "no-ai") THEN "ensure"
                      ELSE "passthrough"
             /\ UNCHANGED <<out, exitCode>>
    /\ UNCHANGED <<osArgs, apiKey, cmd, flags, args, gitExit, llmCalls,
                   setupRuns, loc>>
    /\ UNCHANGED lib

runLog ==
    /\ pc = "run" /\ cmd = "log"
    /\ gitCalls' = Append(gitCalls, RevParse)
    /\ \E inRepo \in BOOLEAN :
        IF ~inRepo THEN NotARepo
        ELSE /\ pc' = IF FlagTrue(flags, "ai-analysis") THEN "ensure"
                      ELSE "passthrough"
             /\ UNCHANGED <<out, exitCode>>
    /\ UNCHANGED <<osArgs, apiKey, cmd, flags, args, gitExit, llmCalls,
                   setupRuns, loc>>
    /\ UNCHANGED lib

runMerge ==
    /\ pc = "run" /\ cmd = "merge"
    /\ gitCalls' = Append(gitCalls, RevParse)
    /\ \E inRepo \in BOOLEAN :
        IF ~inRepo THEN NotARepo
        ELSE /\ pc' = IF FlagTrue(flags, "ai-help")
                          \/ FlagTrue(flags, "ai-message")
                      THEN "ensure"
                      ELSE "passthrough"
             /\ UNCHANGED <<out, exitCode>>
    /\ UNCHANGED <<osArgs, apiKey, cmd, flags, args, gitExit, llmCalls,
                   setupRuns, loc>>
    /\ UNCHANGED lib

\* which function builds the passthrough vector of a command
PassthroughBy(c) ==
    CASE c = "add" -> "executeGitAddPassthrough"
      [] c = "commit" -> "executeGitCommitPassthrough"
      [] c = "diff" -> "executeGitDiffPassthrough"
      [] c = "log" -> "executeGitLogPassthrough"
      [] c = "merge" -> "executeGitMergePassthrough"

PassthroughFns == {PassthroughBy(c) : c \in FlagCommands}

\* exit status of a command whose Run function returned err:
\* "Error: ..." is printed and os.Exit(1) called; 0 when err == nil
RunExit(r) == IF RunOk(r) THEN 0 ELSE 1

\* executeGit<Cmd>Passthrough, and the Run closure taking its error
Passthrough ==
    /\ pc = "passthrough"
    /\ \E r \in GitResults :
        /\ gitCalls' = Append(gitCalls,
               GitCall(PassthroughArgs(cmd, flags, args), PassthroughBy(cmd)))
        /\ gitExit' = r
        /\ Exit(RunExit(r), IF RunOk(r) THEN <<>> ELSE <<"Error: exit status">>)
    /\ UNCHANGED <<osArgs, apiKey, cmd, flags, args, llmCalls, setupRuns, loc>>
    /\ UNCHANGED lib


-----------------------------------------------------------------------------
(* Configuration check and setup *)

\* the step that follows a successful ensureConfiguration, per command
AfterEnsure(c) ==
    CASE c = "add" -> "add_untracked"
      [] c = "commit" -> "commit_diff"
      [] c = "diff" -> "diff_output"
      [] c = "log" -> "log_output"
      [] c = "merge" -> "merge_ai"

\* a test that never asks for setup
MissingKey_Never(key) == FALSE

\* the test of ensureConfiguration on the credential it read
MissingKey(key) == key = ""

\* ensureConfiguration up to the call of setupConfig
ensureConfiguration ==
    /\ pc = "ensure"
    /\ IF ~MissingKey(apiKey)
       THEN /\ pc' = AfterEnsure(cmd)
            /\ UNCHANGED <<setupRuns, out, loc>>
       ELSE /\ pc' = "setup"
            /\ setupRuns' = setupRuns + 1
            /\ out' = Append(out, "No API key configured. Running setup...")
            /\ loc' = [loc EXCEPT !.ret = "ensure"]
    /\ UNCHANGED <<osArgs, apiKey, cmd, flags, args, gitCalls, gitExit,
                   llmCalls, exitCode>>
    /\ UNCHANGED lib

\* how the interactive setup ends: the three settings are stored, the flow
\* returns early (empty key, read error), or the user interrupts it
SetupOutcomes == {"saved", "returned", "cancelled"}

setupConfig ==
    /\ pc = "setup"
    /\ \E o \in SetupOutcomes :
        CASE o = "saved" ->
                /\ apiKey' = "up_new"
                /\ out' = Append(out, "Configuration saved")
                /\ pc' = IF loc.ret = "ensure" THEN "ensure_after" ELSE "done"
                /\ UNCHANGED exitCode
          [] o = "returned" ->
                /\ out' = Append(out, "Setup ended without saving")
                /\ pc' = IF loc.ret = "ensure" THEN "ensure_after" ELSE "done"
                /\ UNCHANGED <<apiKey, exitCode>>
          [] o = "cancelled" ->
                /\ Exit(0, <<"Configuration cancelled by user">>)
                /\ UNCHANGED apiKey
    /\ UNCHANGED <<osArgs, cmd, flags, args, gitCalls, gitExit, llmCalls,
                   setupRuns, loc>>
    /\ UNCHANGED lib

\* ensureConfiguration after setupConfig returned: the key is read again
ensureConfigurationRecheck ==
    /\ pc = "ensure_after"
    /\ IF MissingKey(apiKey)
       THEN Exit(1, <<"Error: configuration setup failed or was cancelled">>)
       ELSE /\ pc' = AfterEnsure(cmd)
            /\ out' = Append(out, "Configuration complete! Continuing...")
            /\ UNCHANGED exitCode
    /\ UNCHANGED <<osArgs, apiKey, cmd, flags, args, gitCalls, gitExit,
                   llmCalls, setupRuns, loc>>
    /\ UNCHANGED lib

-----------------------------------------------------------------------------
(* LLM requests *)

\* a request carries the task and the bearer credential
LLMRequest(task) == [task |-> task, key |-> apiKey]

\* texts the LLM returns, "" for a response without content
GenTexts == {<<>>, Str("gen")}

-----------------------------------------------------------------------------
(* commit, AI path *)

\* a check that takes every completed query for staged changes
hasUncommittedChanges_Always(r) == TRUE

\* hasUncommittedChanges: the bool it returns for an exit code
hasUncommittedChanges(r) == r.code # 0

\* the staged-changes check of runCommit: git diff --cached --quiet
commitCheckStaged ==
    /\ pc = "commit_check"
    /\ \E r \in GitResults :
        /\ gitCalls' = Append(gitCalls,
               GitCall(<<Str("diff"), Long("cached"), Long("quiet")>>,
                       "hasUncommittedChanges"))
        /\ gitExit' = r
        /\ IF ~r.started
           THEN Exit(1, <<"Error: error checking for changes">>)
           ELSE IF ~hasUncommittedChanges(r)
           THEN Exit(0, <<"No changes to commit">>)
           ELSE /\ pc' = "ensure"
                /\ UNCHANGED <<out, exitCode>>
    /\ UNCHANGED <<osArgs, apiKey, cmd, flags, args, llmCalls, setupRuns, loc>>
    /\ UNCHANGED lib

\* texts a captured git query returns: nothing, white space only, or text
QueryTexts == {<<>>, <<" ">>, Str("text")}

\* a trimming that leaves the text as it is
TrimSpace_Identity(text) == text

\* strings.TrimSpace: the text without leading and trailing white space
TrimSpace(text) ==
    LET keep == {i \in 1..Len(text) : text[i] # " "}
    IN  IF keep = {} THEN <<>>
        ELSE SubSeq(text,
                    CHOOSE i \in keep : \A j \in keep : i <= j,
                    CHOOSE i \in keep : \A j \in keep : j <= i)

\* getGitDiff and the empty-diff test of runCommit
commitGetDiff ==
    /\ pc = "commit_diff"
    /\ \E r \in GitResults, diff \in QueryTexts :
        /\ gitCalls' = Append(gitCalls,
               GitCall(<<Str("diff"), Long("cached")>>, "getGitDiff"))
        /\ gitExit' = r
        /\ loc' = [loc EXCEPT !.captured = IF RunOk(r) THEN diff ELSE <<>>]
        /\ IF ~RunOk(r)
           THEN Exit(1, <<"Error: error getting git diff">>)
           ELSE IF TrimSpace(diff) = <<>>
           THEN Exit(1, <<"Error: no diff found - make sure to add files with 'git add' first">>)
           ELSE /\ pc' = "commit_generate"
                /\ UNCHANGED <<out, exitCode>>
    /\ UNCHANGED <<osArgs, apiKey, cmd, flags, args, llmCalls, setupRuns>>
    /\ UNCHANGED lib

CommitContextCalls ==
    << GitCall(<<Str("branch"), Long("show-current")>>, "getCurrentBranch"),
       GitCall(<<Str("log"), <<"-", "5">>, Long("oneline"), Long("no-merges")>>,
               "getRecentCommits"),
       GitCall(<<Str("diff"), Long("cached"), Long("name-status")>>,
               "getEnhancedFileList") >>

\* context gathering and GenerateComprehensiveCommitMessageStream
commitGenerate ==
    /\ pc = "commit_generate"
    /\ gitCalls' = gitCalls \o CommitContextCalls
    /\ llmCalls' = Append(llmCalls, LLMRequest("commit-message"))
    /\ \E ok \in BOOLEAN, text \in GenTexts :
        IF ~ok
        THEN /\ Exit(1, <<"Generating comprehensive commit message with Solar LLM...",
                          "Error: error generating commit message">>)
             /\ loc' = [loc EXCEPT !.llmErrs = @ + 1]
        ELSE /\ pc' = "commit_resolve"
             /\ loc' = [loc EXCEPT !.generated = text]
             /\ out' = out \o <<"Generating comprehensive commit message with Solar LLM...",
                                "Commit message generated!">>
             /\ UNCHANGED exitCode
    /\ UNCHANGED <<osArgs, apiKey, cmd, flags, args, gitExit, setupRuns>>
    /\ UNCHANGED lib

\* what the user types at a prompt, trimmed and lower-cased
Answers == {"y", "yes", "n", ""}

\* what the user types or leaves in the editor, trimmed
UserTexts == {<<>>, Str("typed")}

\* a choice of mode that asks for confirmation before it looks at -i
ResolveMode_SkipEditorFirst(F) ==
    IF FlagTrue(F, "skip-editor") THEN "skip-editor"
    ELSE IF FlagTrue(F, "interactive") THEN "interactive"
    ELSE "editor"

\* the if / else if / else of runCommit over interactive and skipEditor
ResolveMode(F) ==
    IF FlagTrue(F, "interactive") THEN "interactive"
    ELSE IF FlagTrue(F, "skip-editor") THEN "skip-editor"
    ELSE "editor"

\* the three interaction modes of runCommit; loc.mode, loc.userInput and
\* loc.editorErr keep what happened
commitResolve ==
    /\ pc = "commit_resolve"
    /\ LET mode == ResolveMode(flags)
       IN
       IF mode = "interactive"
       THEN \E userInput \in UserTexts :
               /\ loc' = [loc EXCEPT !.finalMessage =
                              IF userInput # <<>> THEN userInput
                              ELSE loc.generated,
                              !.mode = mode, !.userInput = userInput]
               /\ pc' = "commit_final"
               /\ UNCHANGED <<out, exitCode>>
       ELSE IF mode = "skip-editor"
       THEN \E response \in Answers :
               IF response # "y" /\ response # "yes"
               THEN /\ Exit(0, <<"Commit cancelled">>)
                    /\ loc' = [loc EXCEPT !.mode = mode,
                                          !.userInput = response]
               ELSE /\ loc' = [loc EXCEPT !.finalMessage = loc.generated,
                                          !.mode = mode,
                                          !.userInput = response]
                    /\ pc' = "commit_final"
                    /\ UNCHANGED <<out, exitCode>>
       ELSE \E editorOk \in BOOLEAN, edited \in UserTexts \cup {loc.generated} :
               IF ~editorOk
               THEN /\ Exit(1, <<"Error: error opening editor">>)
                    /\ loc' = [loc EXCEPT !.mode = mode, !.editorErr = TRUE]
               ELSE IF edited = <<>>
               THEN /\ Exit(0, <<"Empty commit message, aborting commit">>)
                    /\ loc' = [loc EXCEPT !.mode = mode, !.userInput = edited]
               ELSE /\ loc' = [loc EXCEPT !.finalMessage = edited,
                                          !.mode = mode, !.userInput = edited]
                    /\ pc' = "commit_final"
                    /\ UNCHANGED <<out, exitCode>>
    /\ UNCHANGED <<osArgs, apiKey, cmd, flags, args, gitCalls, gitExit,
                   llmCalls, setupRuns>>
    /\ UNCHANGED lib

\* executeGitCommitWithFlags(finalMessage, cmd)
executeGitCommitWithFlags ==
    /\ pc = "commit_final"
    /\ \E r \in GitResults :
        /\ gitCalls' = Append(gitCalls,
               GitCall(CommitWithFlagsArgs(loc.finalMessage, flags),
                       "executeGitCommitWithFlags"))
        /\ gitExit' = r
        /\ Exit(RunExit(r), IF RunOk(r) THEN <<>> ELSE <<"Error: exit status">>)
    /\ UNCHANGED <<osArgs, apiKey, cmd, flags, args, llmCalls, setupRuns, loc>>
    /\ UNCHANGED lib


-----------------------------------------------------------------------------
(* diff, AI path *)

\* getGitDiffOutput and the empty-diff test of runDiffWithAISummary
diffGetOutput ==
    /\ pc = "diff_output"
    /\ \E r \in GitResults, diff \in QueryTexts :
        /\ gitCalls' = Append(gitCalls,
               GitCall(DiffPassthroughArgs(flags, args), "getGitDiffOutput"))
        /\ gitExit' = r
        /\ loc' = [loc EXCEPT !.captured = IF RunOk(r) THEN diff ELSE <<>>]
        /\ IF ~RunOk(r)
           THEN Exit(1, <<"Error: error getting git diff">>)
           ELSE IF TrimSpace(diff) = <<>>
           THEN Exit(0, <<"No changes found">>)
           ELSE /\ pc' = "diff_summary"
                /\ out' = Append(out, "=== GIT DIFF ===")
                /\ UNCHANGED exitCode
    /\ UNCHANGED <<osArgs, apiKey, cmd, flags, args, llmCalls, setupRuns>>
    /\ UNCHANGED lib

\* SummarizeDiffStream
diffSummarize ==
    /\ pc = "diff_summary"
    /\ llmCalls' = Append(llmCalls, LLMRequest("diff-summary"))
    /\ \E ok \in BOOLEAN :
        IF ok THEN Exit(0, <<"=== AI SUMMARY ===">>) /\ UNCHANGED loc
        ELSE /\ Exit(1, <<"=== AI SUMMARY ===",
                          "Error: error generating diff summary">>)
             /\ loc' = [loc EXCEPT !.llmErrs = @ + 1]
    /\ UNCHANGED <<osArgs, apiKey, cmd, flags, args, gitCalls, gitExit,
                   setupRuns>>
    /\ UNCHANGED lib

-----------------------------------------------------------------------------
(* log, AI path *)

\* getGitLogOutput and the empty-log test of runLogWithAIAnalysis
logGetOutput ==
    /\ pc = "log_output"
    /\ \E r \in GitResults, logOutput \in QueryTexts :
        /\ gitCalls' = Append(gitCalls,
               GitCall(LogOutputArgs(flags, args), "getGitLogOutput"))
        /\ gitExit' = r
        /\ loc' = [loc EXCEPT !.captured = IF RunOk(r) THEN logOutput ELSE <<>>]
        /\ IF ~RunOk(r)
           THEN Exit(1, <<"Error: error getting git log">>)
           ELSE IF TrimSpace(logOutput) = <<>>
           THEN Exit(0, <<"No commits found">>)
           ELSE /\ pc' = "log_analysis"
                /\ out' = Append(out, "=== GIT LOG ===")
                /\ UNCHANGED exitCode
    /\ UNCHANGED <<osArgs, apiKey, cmd, flags, args, llmCalls, setupRuns>>
    /\ UNCHANGED lib

\* AnalyzeLog
logAnalyze ==
    /\ pc = "log_analysis"
    /\ llmCalls' = Append(llmCalls, LLMRequest("log-analysis"))
    /\ \E ok \in BOOLEAN :
        IF ok
        THEN /\ Exit(0, <<"Generating AI analysis...", "=== AI ANALYSIS ===">>)
             /\ UNCHANGED loc
        ELSE /\ Exit(1, <<"Generating AI analysis...",
                          "Error: error generating log analysis">>)
             /\ loc' = [loc EXCEPT !.llmErrs = @ + 1]
    /\ UNCHANGED <<osArgs, apiKey, cmd, flags, args, gitCalls, gitExit,
                   setupRuns>>
    /\ UNCHANGED lib

-----------------------------------------------------------------------------
(* merge, AI path *)

BranchCall == GitCall(<<Str("branch"), Long("show-current")>>, "getCurrentBranch")

PlainCommit == GitCall(<<Str("commit")>>, "runMergeWithAI.commit")

\* runMergeWithAI after ensureConfiguration, up to the result of the
\* --no-commit merge attempt
mergeAttempt ==
    /\ pc = "merge_ai"
    /\ IF Len(args) = 0
       THEN /\ Exit(1, <<"Error: no branch specified for merge">>)
            /\ UNCHANGED <<gitCalls, gitExit>>
       ELSE \E r \in GitResults :
               LET attempt == GitCall(MergeAttemptArgs(flags, args),
                                      "runMergeWithAI")
               IN  IF ~RunOk(r)
                   THEN /\ gitCalls' = gitCalls \o <<BranchCall, attempt>>
                        /\ gitExit' = r
                        /\ pc' = "merge_conflicts"
                        /\ out' = Append(out, "Attempting to merge")
                        /\ UNCHANGED exitCode
                   ELSE IF FlagTrue(flags, "ai-message")
                   THEN /\ gitCalls' = gitCalls \o <<BranchCall, attempt>>
                        /\ gitExit' = r
                        /\ pc' = "merge_message"
                        /\ out' = Append(out, "Attempting to merge")
                        /\ UNCHANGED exitCode
                   ELSE \E c \in GitResults :
                          /\ gitCalls' = gitCalls
                                 \o <<BranchCall, attempt, PlainCommit>>
                          /\ gitExit' = c
                          /\ Exit(RunExit(c),
                                  <<"Attempting to merge">>
                                     \o IF RunOk(c) THEN <<>>
                                        ELSE <<"Error: exit status">>)
    /\ UNCHANGED <<osArgs, apiKey, cmd, flags, args, llmCalls, setupRuns, loc>>
    /\ UNCHANGED lib

\* lists of unmerged paths the conflict query reports
ConflictLists == {<<>>, <<Str("c1")>>, <<Str("c1"), Str("c2")>>}

Instructions == "Please resolve conflicts manually and then: git add <resolved-files>, sgit merge --continue"

\* getMergeConflicts and the branch on its result
mergeConflicts ==
    /\ pc = "merge_conflicts"
    /\ \E r \in GitResults, files \in ConflictLists :
        /\ gitCalls' = Append(gitCalls,
               GitCall(<<Str("diff"), Long("name-only"),
                         LongVal("diff-filter", Str("U"))>>,
                       "getMergeConflicts"))
        /\ IF RunOk(r) /\ Len(files) > 0
           THEN /\ loc' = [loc EXCEPT !.conflicts = files]
                /\ IF FlagTrue(flags, "ai-help")
                   THEN /\ pc' = "merge_help"
                        /\ out' = Append(out, "Merge conflicts detected!")
                        /\ UNCHANGED exitCode
                   ELSE Exit(0, <<"Merge conflicts detected!", Instructions>>)
           ELSE /\ Exit(1, <<"Error: merge failed">>)
                /\ UNCHANGED loc
    /\ UNCHANGED <<osArgs, apiKey, cmd, flags, args, gitExit, llmCalls,
                   setupRuns>>
    /\ UNCHANGED lib

\* provideMergeConflictHelp and the end of the conflict branch
provideMergeConflictHelp ==
    /\ pc = "merge_help"
    /\ llmCalls' = Append(llmCalls,
           [conflictInfo |-> loc.conflicts]
               @@ LLMRequest("merge-conflict-guidance"))
    /\ \E ok \in BOOLEAN :
        IF ok
        THEN /\ Exit(0, <<"=== AI MERGE CONFLICT ASSISTANCE ===", Instructions>>)
             /\ UNCHANGED loc
        ELSE /\ Exit(0, <<"Warning: Could not get AI assistance", Instructions>>)
             /\ loc' = [loc EXCEPT !.llmErrs = @ + 1]
    /\ UNCHANGED <<osArgs, apiKey, cmd, flags, args, gitCalls, gitExit,
                   setupRuns>>
    /\ UNCHANGED lib

\* commitMergeWithAIMessage
commitMergeWithAIMessage ==
    /\ pc = "merge_message"
    /\ llmCalls' = Append(llmCalls, LLMRequest("merge-message"))
    /\ \E ok \in BOOLEAN, message \in GenTexts :
        LET changes == GitCall(<<Str("log"), Long("oneline"), Long("no-merges"),
                                 Str("target..source")>>,
                               "commitMergeWithAIMessage.log")
        IN  IF ~ok
            THEN /\ gitCalls' = Append(gitCalls, changes)
                 /\ Exit(1, <<"Error: error generating merge message">>)
                 /\ loc' = [loc EXCEPT !.llmErrs = @ + 1]
                 /\ UNCHANGED gitExit
            ELSE \E c \in GitResults :
                   /\ gitCalls' = gitCalls \o
                        <<changes,
                          GitCall(<<Str("commit"), Short("m"), message>>,
                                  "commitMergeWithAIMessage")>>
                   /\ gitExit' = c
                   /\ UNCHANGED loc
                   /\ Exit(RunExit(c),
                           <<"Generated merge message">>
                              \o IF RunOk(c) THEN <<>>
                                 ELSE <<"Error: exit status">>)
    /\ UNCHANGED <<osArgs, apiKey, cmd, flags, args, setupRuns>>
    /\ UNCHANGED lib

-----------------------------------------------------------------------------
(* add, AI path *)

\* lists of untracked files git ls-files reports
UntrackedLists ==
    {<<>>, <<Str("u1")>>, <<Str("f1")>>, <<Str("u1"), Str("u2")>>}

\* getUntrackedFiles and the empty test of runSmartAdd
addGetUntracked ==
    /\ pc = "add_untracked"
    /\ \E r \in GitResults, files \in UntrackedLists :
        /\ gitCalls' = Append(gitCalls,
               GitCall(<<Str("ls-files"), Long("others"),
                         Long("exclude-standard")>>, "getUntrackedFiles"))
        /\ gitExit' = r
        /\ IF ~RunOk(r)
           THEN /\ Exit(1, <<"Error: error getting untracked files">>)
                /\ UNCHANGED loc
           ELSE IF Len(files) = 0
           THEN /\ Exit(0, <<"No untracked files found">>)
                /\ UNCHANGED loc
           ELSE /\ pc' = "add_analyze"
                /\ loc' = [loc EXCEPT !.untracked = files, !.idx = 1,
                                      !.filesToAdd = <<>>]
                /\ out' = Append(out, "Found untracked files. Analyzing with Solar LLM...")
                /\ UNCHANGED exitCode
    /\ UNCHANGED <<osArgs, apiKey, cmd, flags, args, llmCalls, setupRuns>>
    /\ UNCHANGED lib

\* what a file on disk is like
FileKinds == {"binary", "large", "unreadable", "text"}

\* how the answer of the LLM about a file begins, or that the request failed
FileAnswers == {"YES:", "yes:", "NO:", "unclear", "error"}

\* strings.ToUpper on the beginnings tried
AnswerUpper(answer) == IF answer = "yes:" THEN "YES:" ELSE answer

\* a test that takes every answer but NO: for a recommendation
Recommends_NotNo(answer) == AnswerUpper(answer) # "NO:"

\* strings.HasPrefix(strings.ToUpper(response), "YES:")
Recommends(answer) == AnswerUpper(answer) = "YES:"

\* one iteration of the analysis loop of runSmartAdd; loc.seen keeps what
\* the file was like and how the answer about it began
addAnalyzeFile ==
    /\ pc = "add_analyze"
    /\ loc.idx <= Len(loc.untracked)
    /\ LET file == loc.untracked[loc.idx]
           Seen(kind, answer) ==
               Append(loc.seen,
                      [file |-> file, kind |-> kind, answer |-> answer])
           skip(kind, answer) ==
               [loc EXCEPT !.idx = @ + 1, !.seen = Seen(kind, answer)]
           take(kind, answer) ==
               [loc EXCEPT !.idx = @ + 1, !.seen = Seen(kind, answer),
                           !.filesToAdd = Append(@, file)]
       IN  \E kind \in FileKinds :
             IF kind \in {"binary", "large"}
             THEN /\ loc' = skip(kind, "")
                  /\ out' = Append(out, "Skipping file")
                  /\ UNCHANGED llmCalls
             ELSE IF FlagTrue(flags, "force-ai")
             THEN /\ loc' = take(kind, "")
                  /\ out' = Append(out, "Will add (force mode)")
                  /\ UNCHANGED llmCalls
             ELSE IF kind = "unreadable"
             THEN /\ loc' = skip(kind, "")
                  /\ out' = Append(out, "Error analyzing file")
                  /\ UNCHANGED llmCalls
             ELSE \E answer \in FileAnswers :
                    /\ llmCalls' = Append(llmCalls, LLMRequest("stage-decision"))
                    /\ IF answer = "error"
                       THEN /\ loc' = [skip(kind, answer)
                                           EXCEPT !.llmErrs = @ + 1]
                            /\ out' = Append(out, "Error analyzing file")
                       ELSE IF Recommends(answer)
                       THEN /\ loc' = take(kind, answer)
                            /\ out' = Append(out, "Recommended to add")
                       ELSE /\ loc' = skip(kind, answer)
                            /\ out' = Append(out, "Recommended to skip")
    /\ UNCHANGED <<pc, osArgs, apiKey, cmd, flags, args, gitCalls, gitExit,
                   setupRuns, exitCode>>
    /\ UNCHANGED lib

\* runSmartAdd after the loop: summary, dry run, confirmation, executeGitAdd;
\* loc.response keeps the answer to the confirmation, "none" when force mode
\* asks for none
addFinish ==
    /\ pc = "add_analyze"
    /\ loc.idx > Len(loc.untracked)
    /\ IF Len(loc.filesToAdd) = 0
       THEN /\ Exit(0, <<"No files recommended for adding">>)
            /\ UNCHANGED <<gitCalls, gitExit, loc>>
       ELSE IF FlagTrue(flags, "dry-run-ai")
       THEN /\ Exit(0, <<"[DRY RUN] No files were actually added">>)
            /\ UNCHANGED <<gitCalls, gitExit, loc>>
       ELSE \E response \in IF FlagTrue(flags, "force-ai") THEN {"none"}
                             ELSE Answers :
              /\ loc' = [loc EXCEPT !.response = response]
              /\ IF ~FlagTrue(flags, "force-ai")
                     /\ response # "y" /\ response # "yes"
                 THEN /\ Exit(0, <<"Add cancelled">>)
                      /\ UNCHANGED <<gitCalls, gitExit>>
                 ELSE \E r \in GitResults :
                        /\ gitCalls' = Append(gitCalls,
                               GitCall(<<Str("add")>> \o loc.filesToAdd,
                                       "executeGitAdd"))
                        /\ gitExit' = r
                        /\ IF RunOk(r)
                           THEN Exit(0, <<"Successfully added files">>)
                           ELSE Exit(1, <<"Error: error adding files">>)
    /\ UNCHANGED <<osArgs, apiKey, cmd, flags, args, llmCalls, setupRuns>>
    /\ UNCHANGED lib

-----------------------------------------------------------------------------

Next ==
    \/ Execute
    \/ ExecuteUnknown
    \/ executeGitCommand
    \/ runSmartAdd
    \/ runCommit
    \/ runDiff
    \/ runLog
    \/ runMerge
    \/ Passthrough
    \/ ensureConfiguration
    \/ setupConfig
    \/ ensureConfigurationRecheck
    \/ commitCheckStaged
    \/ commitGetDiff
    \/ commitGenerate
    \/ commitResolve
    \/ executeGitCommitWithFlags
    \/ diffGetOutput
    \/ diffSummarize
    \/ logGetOutput
    \/ logAnalyze
    \/ mergeAttempt
    \/ mergeConflicts
    \/ provideMergeConflictHelp
    \/ commitMergeWithAIMessage
    \/ addGetUntracked
    \/ addAnalyzeFile
    \/ addFinish

Spec == Init /\ [][Next]_vars

-----------------------------------------------------------------------------
(* Library functions followed on their own.  A call starts with its inputs  *)
(* in lib; the command-line process stands idle meanwhile.                  *)

progVars == <<pc, osArgs, apiKey, cmd, flags, args, gitCalls, gitExit,
              llmCalls, setupRuns, out, exitCode, loc>>

\* the command-line process while a library call is followed on its own
Idle ==
    /\ pc = "lib"
    /\ osArgs = <<>>
    /\ apiKey = ""
    /\ cmd = ""
    /\ flags = NoFlags
    /\ args = <<>>
    /\ gitCalls = <<>>
    /\ gitExit = NoResult
    /\ llmCalls = <<>>
    /\ setupRuns = 0
    /\ out = <<>>
    /\ exitCode = 0
    /\ loc = NoLocals

-----------------------------------------------------------------------------
(* TokenCounter *)

IsSpace(c) == c \in {" ", "\n"}

RECURSIVE FieldsFrom(_, _, _)
\* the words of text from position i on; word is the word being read
FieldsFrom(text, i, word) ==
    IF i > Len(text)
    THEN IF word = <<>> THEN <<>> ELSE <<word>>
    ELSE IF IsSpace(text[i])
    THEN (IF word = <<>> THEN <<>> ELSE <<word>>)
             \o FieldsFrom(text, i + 1, <<>>)
    ELSE FieldsFrom(text, i + 1, Append(word, text[i]))

\* strings.Fields: the maximal runs of characters that are not white space
Fields(text) == FieldsFrom(text, 1, <<>>)

RECURSIVE Join(_, _)
\* strings.Join
Join(words, sep) ==
    IF words = <<>> THEN <<>>
    ELSE IF Len(words) = 1 THEN words[1]
    ELSE words[1] \o sep \o Join(Tail(words), sep)

\* CountWords
CountWords(text) == Len(Fields(text))

\* "\n\n[... truncated to stay within token limit ...]"
TruncationMarker ==
    <<"\n", "\n", "[...", " ", "truncated", " ", "to", " ", "stay", " ",
      "within", " ", "token", " ", "limit", " ", "...]">>

\* a truncation that keeps one word more than the limit
TruncateToWordLimit_OneMore(text, maxWords) ==
    IF text = <<>> THEN [text |-> <<>>, count |-> 0]
    ELSE LET words == Fields(text)
         IN  IF Len(words) <= maxWords + 1
             THEN [text |-> text, count |-> Len(words)]
             ELSE [text |-> Join(SubSeq(words, 1, maxWords + 1), <<" ">>)
                              \o TruncationMarker,
                   count |-> maxWords]

\* TruncateToWordLimit: the text it returns and the count it reports
TruncateToWordLimit(text, maxWords) ==
    IF text = <<>> THEN [text |-> <<>>, count |-> 0]
    ELSE LET words == Fields(text)
         IN  IF Len(words) <= maxWords
             THEN [text |-> text, count |-> Len(words)]
             ELSE [text |-> Join(SubSeq(words, 1, maxWords), <<" ">>)
                              \o TruncationMarker,
                   count |-> maxWords]

\* SplitContent: the four sections it returns and the total it reports.
\* int(float64(n) * 0.6) and int(float64(n) * 0.25) are the integer parts of
\* 6n/10 and 25n/100 for every n up to the budget.
SplitContent(diff, branch, recentCommits, fileList) ==
    LET diffWords == CountWords(diff)
        branchWords == CountWords(branch)
        recentCommitsWords == CountWords(recentCommits)
        fileListWords == CountWords(fileList)
        totalWords == diffWords + branchWords + recentCommitsWords
                          + fileListWords
    IN  IF totalWords <= MaxInputWords
        THEN [diff |-> diff, branch |-> branch,
              recentCommits |-> recentCommits, fileList |-> fileList,
              total |-> totalWords]
        ELSE LET keep == branchWords < MaxInputWords
                 cut == TruncateToWordLimit(branch, MaxInputWords \div 4)
                 remainingWords ==
                     IF keep THEN MaxInputWords - branchWords
                     ELSE MaxInputWords - (MaxInputWords \div 4)
                 diffAllocation == (remainingWords * 6) \div 10
                 fileListAllocation == (remainingWords * 25) \div 100
                 recentCommitsAllocation ==
                     remainingWords - diffAllocation - fileListAllocation
                 d == TruncateToWordLimit(diff, diffAllocation)
                 f == TruncateToWordLimit(fileList, fileListAllocation)
                 r == TruncateToWordLimit(recentCommits,
                                          recentCommitsAllocation)
             IN  [diff |-> d.text,
                  branch |-> IF keep THEN branch ELSE cut.text,
                  recentCommits |-> r.text, fileList |-> f.text,
                  total |-> d.count + branchWords + r.count + f.count]

\* the texts tried with TruncateToWordLimit
TruncateTexts == BoundedSeq({" ", "a", "b"}, MaxText)

TruncateCalls ==
    [fn : {"TruncateToWordLimit"}, text : TruncateTexts,
     maxWords : 0..MaxWords, returned : {FALSE}]

\* a text of k words
WordsText(k) == Join([i \in 1..k |-> <<"w">>], <<" ">>)

\* the sections tried with SplitContent
SectionTexts == {WordsText(k) : k \in 0..(MaxInputWords + Excess)}

SplitCalls ==
    [fn : {"SplitContent"}, diff : SectionTexts, branch : SectionTexts,
     recentCommits : SectionTexts, fileList : SectionTexts,
     returned : {FALSE}]

\* a call of TruncateToWordLimit returns
TruncateToWordLimitReturns ==
    /\ lib.fn = "TruncateToWordLimit" /\ ~lib.returned
    /\ lib' = [result |-> TruncateToWordLimit(lib.text, lib.maxWords)]
                  @@ [lib EXCEPT !.returned = TRUE]
    /\ UNCHANGED progVars

\* a call of SplitContent returns
SplitContentReturns ==
    /\ lib.fn = "SplitContent" /\ ~lib.returned
    /\ lib' = [result |-> SplitContent(lib.diff, lib.branch,
                                       lib.recentCommits, lib.fileList)]
                  @@ [lib EXCEPT !.returned = TRUE]
    /\ UNCHANGED progVars

TokenInit == Idle /\ lib \in TruncateCalls \cup SplitCalls

TokenNext == TruncateToWordLimitReturns \/ SplitContentReturns

TokenSpec == TokenInit /\ [][TokenNext]_vars


-----------------------------------------------------------------------------
(* Language of the AI responses.  A language code is a sequence of letters. *)

Code(a, b) == <<a, b>>

DefaultLanguage == Code("e", "n")

\* the codes isValidLanguageCode accepts
ValidCodes ==
    {Code("e", "n"), Code("k", "o"), Code("j", "a"), Code("z", "h"),
     Code("e", "s"), Code("f", "r"), Code("d", "e")}

isValidLanguageCode(code) == code \in ValidCodes

\* strings.ToLower on the letters tried
ToLower(text) ==
    [i \in DOMAIN text |->
        CASE text[i] = "K" -> "k"
          [] text[i] = "O" -> "o"
          [] text[i] = "X" -> "x"
          [] OTHER -> text[i]]

\* getEffectiveLanguage: the language it returns and whether it wrote the
\* warning to stderr
getEffectiveLanguage(langFlag, configLang) ==
    IF langFlag # <<>>
    THEN LET lang == ToLower(TrimSpace(langFlag))
         IN  IF isValidLanguageCode(lang)
             THEN [language |-> lang, warned |-> FALSE]
             ELSE [language |-> DefaultLanguage, warned |-> TRUE]
    ELSE IF configLang # <<>>
    THEN LET lang == ToLower(TrimSpace(configLang))
         IN  IF isValidLanguageCode(lang)
             THEN [language |-> lang, warned |-> FALSE]
             ELSE [language |-> DefaultLanguage, warned |-> FALSE]
    ELSE [language |-> DefaultLanguage, warned |-> FALSE]

\* languageNames of addLanguageInstruction, the code itself for a code that
\* is not in the map
LanguageName(language) ==
    CASE language = Code("k", "o") -> "Korean"
      [] language = Code("j", "a") -> "Japanese"
      [] language = Code("z", "h") -> "Chinese"
      [] language = Code("e", "s") -> "Spanish"
      [] language = Code("f", "r") -> "French"
      [] language = Code("d", "e") -> "German"
      [] OTHER -> language

\* the directive addLanguageInstruction puts in front of a prompt
Directive(languageName) ==
    <<"IMPORTANT: Please respond in ", languageName,
      ". All explanations, commit messages, summaries, and analysis should be written in ",
      languageName, ".\n\n">>

\* addLanguageInstruction of a client with the given language
addLanguageInstruction(language, prompt) ==
    IF language = <<>> \/ language = DefaultLanguage THEN prompt
    ELSE Directive(LanguageName(language)) \o prompt

\* the AI tasks
Tasks ==
    {"stage-decision", "commit-message", "diff-summary", "log-analysis",
     "merge-conflict-guidance", "merge-message"}

\* the prompt text of a task, before any directive
Body(task) == <<task>>

\* the prompt a task sends when the effective language is language:
\* analyzeFileWithAI hands its prompt to GenerateResponse itself;
\* runLogWithAIAnalysis builds its client without a language; the other
\* tasks go through a client method that calls addLanguageInstruction
PromptSent(task, language) ==
    CASE task = "stage-decision" -> Body(task)
      [] task = "log-analysis" -> Body(task)
      [] OTHER -> addLanguageInstruction(language, Body(task))

\* the values tried for the --lang flag and for the configured language
LanguageInputs ==
    {<<>>, Code("k", "o"), Code("K", "O"), <<" ", "k", "o">>, Code("j", "a"),
     Code("e", "n"), Code("x", "x"), <<" ">>}

PromptCalls ==
    [fn : {"prompt"}, task : Tasks, langFlag : LanguageInputs,
     configLang : LanguageInputs, returned : {FALSE}]

\* a task resolves the language and sends its prompt
SendPrompt ==
    /\ lib.fn = "prompt" /\ ~lib.returned
    /\ LET e == getEffectiveLanguage(lib.langFlag, lib.configLang)
       IN  lib' = [language |-> e.language, warned |-> e.warned,
                   prompt |-> PromptSent(lib.task, e.language)]
                      @@ [lib EXCEPT !.returned = TRUE]
    /\ UNCHANGED progVars

LanguageInit == Idle /\ lib \in PromptCalls

LanguageNext == SendPrompt

LanguageSpec == LanguageInit /\ [][LanguageNext]_vars

-----------------------------------------------------------------------------
(* Responses of the LLM.  The tags <think> and </think> are sequences of    *)
(* pieces, so that a tag can arrive split and can form from its pieces.     *)

OpenTag == <<"<", "think>">>

CloseTag == <<"<", "/", "think>">>

RECURSIVE IndexFrom(_, _, _)
\* the first position at or after i where sub occurs in text, 0 for none
IndexFrom(text, sub, i) ==
    IF i + Len(sub) - 1 > Len(text) THEN 0
    ELSE IF SubSeq(text, i, i + Len(sub) - 1) = sub THEN i
    ELSE IndexFrom(text, sub, i + 1)

\* strings.Index, counted from 1, 0 for -1
Index(text, sub) == IndexFrom(text, sub, 1)

RECURSIVE RemoveThinkBlocks(_)
\* the loop of cleanResponse
RemoveThinkBlocks(content) ==
    LET start == Index(content, OpenTag)
    IN  IF start = 0 THEN content
        ELSE LET end == IndexFrom(content, CloseTag, start)
             IN  IF end = 0 THEN content
                 ELSE RemoveThinkBlocks(
                          SubSeq(content, 1, start - 1)
                              \o SubSeq(content, end + Len(CloseTag),
                                        Len(content)))

\* a cleaning that removes the first block only
cleanResponse_Once(content) ==
    LET start == Index(content, OpenTag)
    IN  IF start = 0 THEN TrimSpace(content)
        ELSE LET end == IndexFrom(content, CloseTag, start)
             IN  IF end = 0 THEN TrimSpace(content)
                 ELSE TrimSpace(SubSeq(content, 1, start - 1)
                                    \o SubSeq(content, end + Len(CloseTag),
                                              Len(content)))

\* cleanResponse
cleanResponse(content) == TrimSpace(RemoveThinkBlocks(content))

\* GenerateResponse for a response with status 200 whose first choice
\* carries content
GenerateResponse(content) == TrimSpace(cleanResponse(content))

\* the pieces a response text is made of
Pieces == {OpenTag, CloseTag, <<"<">>, <<"think>">>, <<"x">>, <<" ">>}

\* the response texts tried with cleanResponse
ResponseTexts == {Flatten(ps) : ps \in BoundedSeq(Pieces, MaxPieces)}

CleanCalls ==
    [fn : {"cleanResponse"}, content : ResponseTexts, returned : {FALSE}]

\* a call of cleanResponse returns
cleanResponseReturns ==
    /\ lib.fn = "cleanResponse" /\ ~lib.returned
    /\ lib' = [result |-> cleanResponse(lib.content)]
                  @@ [lib EXCEPT !.returned = TRUE]
    /\ UNCHANGED progVars

BlockingCalls ==
    [fn : {"GenerateResponse"}, choices : 0..1,
     content : {Flatten(ps) : ps \in BoundedSeq(Pieces, 2)},
     returned : {FALSE}]

\* a blocking request returns: an error for a response without choices,
\* the cleaned content of the first choice otherwise
GenerateResponseReturns ==
    /\ lib.fn = "GenerateResponse" /\ ~lib.returned
    /\ lib' = [result |-> IF lib.choices = 0 THEN <<>>
                          ELSE GenerateResponse(lib.content),
               err |-> (lib.choices = 0)]
                  @@ [lib EXCEPT !.returned = TRUE]
    /\ UNCHANGED progVars

(* The stream of GenerateResponseStream.  A line has the text before its    *)
(* payload (prefix) and the payload: nothing, the sentinel [DONE], text     *)
(* that is not JSON, or an event with its number of choices and the delta   *)
(* content of the first one.                                                *)

DataPrefix == "data: "

Line(prefix, kind, choices, content) ==
    [prefix |-> prefix, kind |-> kind, choices |-> choices,
     content |-> content]

\* the contents a stream event carries
Chunks == {<<>>, <<"<">>, <<"think>">>, CloseTag, <<"x">>, <<" ">>}

StreamLines ==
    {Line("", "empty", 0, <<>>),
     Line("data:", "event", 1, <<"x">>),
     Line(DataPrefix, "done", 0, <<>>),
     Line(DataPrefix, "invalid", 0, <<>>),
     Line(DataPrefix, "event", 0, <<>>)}
        \cup {Line(DataPrefix, "event", 1, c) : c \in Chunks}

\* a line that does not have the prefix is taken for a data line
HasDataPrefix_AnyData(line) == line.prefix # ""

\* line != "" && strings.HasPrefix(line, "data: ")
HasDataPrefix(line) == line.prefix = DataPrefix

\* an accumulator that cleans each chunk as it arrives
WriteString_Cleaned(fullContent, content) ==
    fullContent \o cleanResponse(content)

\* fullContent.WriteString(content)
WriteString(fullContent, content) == fullContent \o content

GeneratedLabel == Str("Generated commit message: ")

StreamCalls ==
    [fn : {"GenerateResponseStream"},
     lines : BoundedSeq(StreamLines, MaxLines),
     readErr : BOOLEAN,
     i : {0}, fullContent : {<<>>}, printed : {<<>>},
     firstChunk : {TRUE}, ended : {FALSE}, returned : {FALSE}]

\* the scanner has a next line
Scanning ==
    /\ lib.fn = "GenerateResponseStream"
    /\ ~lib.returned /\ ~lib.ended
    /\ lib.i < Len(lib.lines)

NextLine == lib.lines[lib.i + 1]

\* an empty line or a line without the prefix: continue
streamSkipsLine ==
    /\ Scanning
    /\ ~HasDataPrefix(NextLine)
    /\ lib' = [lib EXCEPT !.i = @ + 1]
    /\ UNCHANGED progVars

\* data == "[DONE]": break
streamDone ==
    /\ Scanning
    /\ HasDataPrefix(NextLine)
    /\ NextLine.kind = "done"
    /\ lib' = [lib EXCEPT !.i = @ + 1, !.ended = TRUE]
    /\ UNCHANGED progVars

\* json.Unmarshal fails: continue
streamSkipsInvalid ==
    /\ Scanning
    /\ HasDataPrefix(NextLine)
    /\ NextLine.kind \in {"invalid", "empty"}
    /\ lib' = [lib EXCEPT !.i = @ + 1]
    /\ UNCHANGED progVars

\* an event without choices or with an empty content: nothing is done
streamSkipsEvent ==
    /\ Scanning
    /\ HasDataPrefix(NextLine)
    /\ NextLine.kind = "event"
    /\ ~(NextLine.choices > 0 /\ NextLine.content # <<>>)
    /\ lib' = [lib EXCEPT !.i = @ + 1]
    /\ UNCHANGED progVars

\* an event with content: the label before the first one, then the content
\* is printed and written to the accumulator
streamChunk ==
    /\ Scanning
    /\ HasDataPrefix(NextLine)
    /\ NextLine.kind = "event"
    /\ NextLine.choices > 0 /\ NextLine.content # <<>>
    /\ lib' = [lib EXCEPT
                 !.i = @ + 1,
                 !.firstChunk = FALSE,
                 !.printed = (IF lib.firstChunk THEN Append(@, GeneratedLabel)
                              ELSE @) \o <<NextLine.content>>,
                 !.fullContent = WriteString(@, NextLine.content)]
    /\ UNCHANGED progVars

\* the loop is over
ScanOver ==
    /\ lib.fn = "GenerateResponseStream"
    /\ ~lib.returned
    /\ lib.ended \/ lib.i = Len(lib.lines)

\* scanner.Err() is not nil: the read failed after the last line
streamFails ==
    /\ ScanOver
    /\ ~lib.ended /\ lib.readErr
    /\ lib' = [result |-> <<>>, err |-> TRUE]
                  @@ [lib EXCEPT !.returned = TRUE]
    /\ UNCHANGED progVars

\* the newline, then the accumulated text cleaned and trimmed
streamReturns ==
    /\ ScanOver
    /\ lib.ended \/ ~lib.readErr
    /\ lib' = [result |-> TrimSpace(cleanResponse(lib.fullContent)),
               err |-> FALSE]
                  @@ [lib EXCEPT !.returned = TRUE,
                                 !.printed = Append(@, <<"\n">>)]
    /\ UNCHANGED progVars

ResponseInit ==
    /\ Idle
    /\ lib \in CleanCalls \cup BlockingCalls \cup StreamCalls

ResponseNext ==
    \/ cleanResponseReturns
    \/ GenerateResponseReturns
    \/ streamSkipsLine
    \/ streamDone
    \/ streamSkipsInvalid
    \/ streamSkipsEvent
    \/ streamChunk
    \/ streamFails
    \/ streamReturns

ResponseSpec == ResponseInit /\ [][ResponseNext]_vars

-----------------------------------------------------------------------------
(* The spinner of GenerateResponseStream.  The main flow and the goroutine  *)
(* of Spinner.Start take their steps in any order; a step is one access to  *)
(* the fields under the mutex, one operation of the channel or one write to *)
(* the terminal.  The terminal is the sequence of what was written to it.   *)

\* how the request ends: client.Do fails, the status is not 200, or the
\* body is a stream
RequestOutcomes == {"requestError", "badStatus", "stream"}

SpinnerCalls ==
    [fn : {"Spinner"},
     outcome : RequestOutcomes,
     chunks : 0..MaxLines,
     readErr : BOOLEAN,
     main : {"start"}, after : {""}, task : {"none"},
     active : {FALSE}, stopChan : {0},
     firstChunk : {TRUE}, stopCalled : {FALSE},
     terminal : {<<>>}, err : {FALSE}]

InSpinner == lib.fn = "Spinner"

Frames == Len(SelectSeq(lib.terminal, LAMBDA w : w = "frame"))

\* Spinner.Start: active is set and the goroutine is started
SpinnerStart ==
    /\ InSpinner /\ lib.main = "start"
    /\ lib' = [lib EXCEPT !.active = TRUE, !.task = "select",
                          !.main = "request"]
    /\ UNCHANGED progVars

\* Spinner.Stop, first step: active is cleared under the lock; the caller
\* goes on at `after` once Stop has returned
StopFrom(after) ==
    [lib EXCEPT !.active = FALSE, !.stopCalled = TRUE,
                !.main = "stopSend", !.after = after]

\* client.Do and the status check
streamRequest ==
    /\ InSpinner /\ lib.main = "request"
    /\ lib' = IF lib.outcome = "stream"
              THEN [lib EXCEPT !.main = "scan"]
              ELSE StopFrom("fail")
    /\ UNCHANGED progVars

\* Spinner.Stop, second step: a send on stopChan that does not block
StopSend ==
    /\ InSpinner /\ lib.main = "stopSend"
    /\ lib' = [lib EXCEPT !.stopChan = 1, !.main = "stopClear"]
    /\ UNCHANGED progVars

\* Spinner.Stop, last step: the line is cleared and Stop returns
StopClear ==
    /\ InSpinner /\ lib.main = "stopClear"
    /\ lib' = [lib EXCEPT !.terminal = Append(@, "clear"),
                          !.main = lib.after, !.after = ""]
    /\ UNCHANGED progVars

\* the error return after a failed request or a bad status
streamRequestFails ==
    /\ InSpinner /\ lib.main = "fail"
    /\ lib' = [lib EXCEPT !.main = "returned", !.err = TRUE]
    /\ UNCHANGED progVars

\* the scanner has a content chunk: Stop before the first one
streamScanChunk ==
    /\ InSpinner /\ lib.main = "scan"
    /\ lib.chunks > 0
    /\ lib' = IF lib.firstChunk THEN StopFrom("label")
              ELSE [lib EXCEPT !.main = "print"]
    /\ UNCHANGED progVars

\* fmt.Print("Generated commit message: ")
streamPrintLabel ==
    /\ InSpinner /\ lib.main = "label"
    /\ lib' = [lib EXCEPT !.terminal = Append(@, "label"),
                          !.firstChunk = FALSE, !.main = "print"]
    /\ UNCHANGED progVars

\* fmt.Print(content)
streamPrintChunk ==
    /\ InSpinner /\ lib.main = "print"
    /\ lib' = [lib EXCEPT !.terminal = Append(@, "chunk"),
                          !.chunks = @ - 1, !.main = "scan"]
    /\ UNCHANGED progVars

\* the scanner has no more lines: the error of scanner.Err(), or the
\* newline and the text
streamScanOver ==
    /\ InSpinner /\ lib.main = "scan"
    /\ lib.chunks = 0
    /\ lib' = IF lib.readErr
              THEN [lib EXCEPT !.main = "returned", !.err = TRUE]
              ELSE [lib EXCEPT !.terminal = Append(@, "newline"),
                               !.main = "returned"]
    /\ UNCHANGED progVars

\* the goroutine at its select: it returns when stopChan holds a value and
\* takes the default case otherwise
spinnerSelect ==
    /\ InSpinner /\ lib.task = "select"
    /\ lib' = IF lib.stopChan = 1
              THEN [lib EXCEPT !.stopChan = 0, !.task = "exited"]
              ELSE [lib EXCEPT !.task = "check"]
    /\ UNCHANGED progVars

\* the goroutine reads active under the read lock
spinnerCheck ==
    /\ InSpinner /\ lib.task = "check"
    /\ lib' = [lib EXCEPT !.task = IF lib.active THEN "frame" ELSE "exited"]
    /\ UNCHANGED progVars

\* the goroutine writes a frame
spinnerFrame ==
    /\ InSpinner /\ lib.task = "frame"
    /\ Frames < MaxFrames
    /\ lib' = [lib EXCEPT !.terminal = Append(@, "frame"), !.task = "sleep"]
    /\ UNCHANGED progVars

\* time.Sleep(s.delay) is over
spinnerSleep ==
    /\ InSpinner /\ lib.task = "sleep"
    /\ lib' = [lib EXCEPT !.task = "select"]
    /\ UNCHANGED progVars

SpinnerInit ==
    /\ Idle
    /\ lib \in SpinnerCalls

SpinnerNext ==
    \/ SpinnerStart
    \/ streamRequest
    \/ StopSend
    \/ StopClear
    \/ streamRequestFails
    \/ streamScanChunk
    \/ streamPrintLabel
    \/ streamPrintChunk
    \/ streamScanOver
    \/ spinnerSelect
    \/ spinnerCheck
    \/ spinnerFrame
    \/ spinnerSleep

SpinnerSpec == SpinnerInit /\ [][SpinnerNext]_vars

-----------------------------------------------------------------------------
(* setupConfig followed prompt by prompt.  settings are the values viper    *)
(* holds in memory, file is the configuration file.                         *)

Config(key, model, language) ==
    [key |-> key, model |-> model, language |-> language]

\* no configuration yet, or a complete one
ExistingConfigs == {Config("", "", <<>>), Config("k0", "m0", Code("k", "o"))}

\* how a read at a prompt ends: the line typed, an error that names an
\* interrupt (or Ctrl-C in raw mode), another read error
ReadOutcomes == {"line", "interrupt", "error"}

KeyInputs == {"", "k1"}

ModelInputs == {"", "m1"}

LanguageCodeInputs == {<<>>, Code("j", "a"), Code("K", "O"), Code("x", "x")}

defaultModel == "solar-pro2-preview"

SetupCalls ==
    [fn : {"setupConfig"},
     existing : ExistingConfigs,
     settings : ExistingConfigs,
     file : ExistingConfigs,
     fileBefore : ExistingConfigs,
     at : {"key"}, ending : {""}, answered : {0},
     apiKeyStr : {""}, modelName : {""}, language : {<<>>}]

InSetup == lib.fn = "setupConfig"

\* os.Exit(0) after "Configuration cancelled by user"
Cancelled == [lib EXCEPT !.at = "exit", !.ending = "cancelled"]

\* return after "Error reading ..." or "API key cannot be empty"
Returned == [lib EXCEPT !.at = "exit", !.ending = "returned"]

\* the API key prompt: Enter keeps an existing key; without one the key is
\* read in raw mode and may not be empty
setupReadKey ==
    /\ InSetup /\ lib.at = "key"
    /\ \E how \in ReadOutcomes, input \in KeyInputs :
        lib' = IF how = "interrupt" THEN Cancelled
               ELSE IF how = "error" THEN Returned
               ELSE IF lib.existing.key # ""
               THEN [lib EXCEPT !.at = "model", !.answered = 1,
                                !.apiKeyStr = IF input = ""
                                              THEN lib.existing.key
                                              ELSE input]
               ELSE IF input = "" THEN Returned
               ELSE [lib EXCEPT !.at = "model", !.answered = 1,
                                !.apiKeyStr = input]
    /\ UNCHANGED progVars

\* the model prompt
setupReadModel ==
    /\ InSetup /\ lib.at = "model"
    /\ \E how \in ReadOutcomes, input \in ModelInputs :
        lib' = IF how = "interrupt" THEN Cancelled
               ELSE IF how = "error" THEN Returned
               ELSE [lib EXCEPT
                       !.at = "language", !.answered = 2,
                       !.modelName =
                           IF input # "" THEN input
                           ELSE IF lib.existing.model # ""
                           THEN lib.existing.model
                           ELSE defaultModel]
    /\ UNCHANGED progVars

\* the language the setup keeps for what was typed
SetupLanguage(existingLanguage, input) ==
    LET typed  == ToLower(input)
        chosen == IF typed # <<>> THEN typed
                  ELSE IF existingLanguage # <<>> THEN existingLanguage
                  ELSE DefaultLanguage
    IN  IF chosen \in ValidCodes THEN chosen ELSE DefaultLanguage

\* the language prompt and the validation of the code
setupReadLanguage ==
    /\ InSetup /\ lib.at = "language"
    /\ \E how \in ReadOutcomes, input \in LanguageCodeInputs :
        lib' = IF how = "interrupt" THEN Cancelled
               ELSE IF how = "error" THEN Returned
               ELSE [lib EXCEPT
                       !.at = "set", !.answered = 3,
                       !.language = SetupLanguage(lib.existing.language, input)]
    /\ UNCHANGED progVars

\* a saving that sets the API key and leaves the other settings
viperSet_KeyOnly(settings, apiKeyStr, modelName, language) ==
    [settings EXCEPT !.key = apiKeyStr]

\* the three viper.Set calls
viperSet(settings, apiKeyStr, modelName, language) ==
    Config(apiKeyStr, modelName, language)

setupSet ==
    /\ InSetup /\ lib.at = "set"
    /\ lib' = [lib EXCEPT
                 !.at = "write",
                 !.settings = viperSet(@, lib.apiKeyStr, lib.modelName,
                                       lib.language)]
    /\ UNCHANGED progVars

\* viper.WriteConfigAs: the settings are written, or the write fails
setupWrite ==
    /\ InSetup /\ lib.at = "write"
    /\ \E ok \in BOOLEAN :
        lib' = IF ok
               THEN [lib EXCEPT !.at = "exit", !.ending = "saved",
                                !.file = lib.settings]
               ELSE [lib EXCEPT !.at = "exit", !.ending = "writeError"]
    /\ UNCHANGED progVars

\* the signal goroutine: an interrupt while setupConfig runs ends the process
setupSignal ==
    /\ InSetup /\ lib.at # "exit"
    /\ lib' = Cancelled
    /\ UNCHANGED progVars

SetupInit ==
    /\ Idle
    /\ lib \in {c \in SetupCalls :
                   c.settings = c.existing /\ c.fileBefore = c.file}

SetupNext ==
    \/ setupReadKey
    \/ setupReadModel
    \/ setupReadLanguage
    \/ setupSet
    \/ setupWrite
    \/ setupSignal

SetupSpec == SetupInit /\ [][SetupNext]_vars

-----------------------------------------------------------------------------
(* getGitLogOutput followed on its own, over the flags set and the          *)
(* positional arguments left after parsing.                                 *)

\* the values a log flag is set to
LogFlagValues(n) ==
    CASE n = "number" -> {<<>>, Str("5")}
      [] n = "since" -> {Str("x"), <<"-", "5">>}
      [] n = "oneline" -> {BoolTrue}
      [] n = "no-merges" -> {BoolTrue}

LogFlagNames == {"number", "since", "oneline", "no-merges"}

\* the flags set on a command line of log --ai-analysis
LogFlagSets ==
    UNION {{("ai-analysis" :> BoolTrue) @@ F :
               F \in {G \in [D -> UNION {LogFlagValues(n) : n \in D}] :
                         \A n \in D : G[n] \in LogFlagValues(n)}} :
           D \in SUBSET LogFlagNames}

\* positional arguments: a revision, and words after "--" that begin with a
\* dash
LogPositionals == {Str("HEAD"), <<"-", "5">>, <<"-", "n", "x">>}

LogCalls ==
    [fn : {"getGitLogOutput"},
     flags : LogFlagSets,
     args : BoundedSeq(LogPositionals, MaxArgv - 1),
     returned : {FALSE}]

\* the command line getGitLogOutput runs
getGitLogOutputReturns ==
    /\ lib.fn = "getGitLogOutput" /\ ~lib.returned
    /\ lib' = [result |-> LogOutputArgs(lib.flags, lib.args)]
                  @@ [lib EXCEPT !.returned = TRUE]
    /\ UNCHANGED progVars

LogArgsInit == Idle /\ lib \in LogCalls

LogArgsNext == getGitLogOutputReturns

LogArgsSpec == LogArgsInit /\ [][LogArgsNext]_vars

-----------------------------------------------------------------------------
(* The token estimate of a content that TruncateContent keeps, with the    *)
(* numbers of the source.  EstimateTokens and TruncateContent depend on a   *)
(* content through its number of words only, so a content is given by its   *)
(* number of words.                                                         *)

\* MaxInputTokens of the source
MaxInputTokens == 40000

\* MaxInputWords of the source
SourceMaxInputWords == 27000

\* int(float64(wordCount) * 1.5)
EstimateTokens(wordCount) == (wordCount * 15) \div 10

\* the number of words of the text TruncateContent returns: the content as
\* it is, or its first MaxInputWords words and the truncation marker
TruncateContent(words) ==
    IF words =< SourceMaxInputWords THEN words
    ELSE SourceMaxInputWords + CountWords(TruncationMarker)

EstimateCalls ==
    [fn : {"EstimateTokens"},
     words : 0..(SourceMaxInputWords + Excess),
     returned : {FALSE}]

\* TruncateContent on a content, then EstimateTokens on what it kept
EstimateTokensReturns ==
    /\ lib.fn = "EstimateTokens" /\ ~lib.returned
    /\ lib' = [kept |-> TruncateContent(lib.words),
               result |-> EstimateTokens(TruncateContent(lib.words))]
                  @@ [lib EXCEPT !.returned = TRUE]
    /\ UNCHANGED progVars

EstimateInit == Idle /\ lib \in EstimateCalls

EstimateNext == EstimateTokensReturns

EstimateSpec == EstimateInit /\ [][EstimateNext]_vars

-----------------------------------------------------------------------------
(* Properties *)

Done == pc = "done"

Last(q) == q[Len(q)]

\* the last message printed is one of msgs
LastOut(msgs) == out # <<>> /\ Last(out) \in msgs

LastCallBy(fns) == gitCalls # <<>> /\ Last(gitCalls).by \in fns

\* C1: whenever add, commit, diff, log or merge takes the passthrough path,
\* the exit code of sgit equals the exit code of the delegated git process,
\* for every git exit code.
C1_PassthroughExitCode ==
    (Done /\ LastCallBy(PassthroughFns) /\ gitExit.started)
        => exitCode = gitExit.code

\* the first word of the user's argument vector when it is a command word
CommandWord ==
    IF CommandIndex(osArgs, 1) = 0 THEN ""
    ELSE osArgs[CommandIndex(osArgs, 1)][1]

UnknownInvocation == CommandWord # "" /\ CommandWord \notin KnownCommands

GitInvocation == CommandWord = "git"

\* C2: for an unknown subcommand the vector handed to git is the user's
\* whole argument vector, for 'sgit git <args>' it is <args>, in both cases
\* unchanged (same elements, same order, nothing added or removed), git is
\* run exactly once, and sgit exits with exactly git's exit code.
C2_VerbatimForwarding ==
    (Done /\ (UnknownInvocation \/ GitInvocation)) =>
        /\ Len(gitCalls) = 1
        /\ UnknownInvocation => gitCalls[1].argv = osArgs
        /\ GitInvocation =>
              gitCalls[1].argv
                  = SubSeq(osArgs, CommandIndex(osArgs, 1) + 1, Len(osArgs))
        /\ gitExit.started => exitCode = gitExit.code

C2_Witness ==
    /\ Done /\ UnknownInvocation
    /\ Len(osArgs) = 3
    /\ gitCalls = <<GitCall(osArgs, "Execute")>>
    /\ gitExit.started /\ gitExit.code = 128 /\ exitCode = 128


\* the flags a reconstructed vector has to carry: explicitly set, not
\* augmentation-only, true if boolean and non-empty if valued
Eligible(c, F) ==
    {n \in DOMAIN F :
        /\ n \notin AugmentationFlags(c)
        /\ \/ ByName(Table(c), n).type = "bool" /\ F[n] = BoolTrue
           \/ ByName(Table(c), n).type # "bool" /\ F[n] # <<>>}

RECURSIVE EligibleFrom(_, _, _, _)
\* the eligible flags of table T from index i on, in the table's order
EligibleFrom(T, E, F, i) ==
    IF i > Len(T) THEN <<>>
    ELSE IF T[i].name \in E
    THEN <<T[i]>> \o EligibleFrom(T, E, F, i + 1)
    ELSE EligibleFrom(T, E, F, i + 1)

\* the ways git accepts flag f with value v on a command line
FormsOf(f, v) ==
    IF f.type = "bool"
    THEN {<<Long(f.name)>>} \cup (IF f.sh = "" THEN {} ELSE {<<Short(f.sh)>>})
    ELSE {<<LongVal(f.name, v)>>}
             \cup (IF f.sh = "" THEN {} ELSE {<<Short(f.sh), v>>})

IsPrefix(p, q) == Len(p) <= Len(q) /\ SubSeq(q, 1, Len(p)) = p

RECURSIVE CarriesExactly(_, _, _)
\* body consists of one form of each flag of fs, in order, and nothing else
CarriesExactly(body, fs, F) ==
    IF fs = <<>> THEN body = <<>>
    ELSE \E form \in FormsOf(Head(fs), F[Head(fs).name]) :
            /\ IsPrefix(form, body)
            /\ CarriesExactly(SubSeq(body, Len(form) + 1, Len(body)),
                              Tail(fs), F)

\* the vector v carries exactly the flags of the set E
CarriesFlags(v, E) ==
    CarriesExactly(v, EligibleFrom(Table(cmd), E, flags, 1), flags)

\* v without its first k and its last m elements
Strip(v, k, m) == SubSeq(v, k + 1, Len(v) - m)

FlagBuiltFns ==
    PassthroughFns \cup {"runMergeWithAI", "executeGitCommitWithFlags"}

\* the flag part of a vector built from the parsed flags as the claim reads
\* it: everything but the command word and the positional arguments
FlagPartAsClaimed(c) ==
    CASE c.by \in PassthroughFns -> Strip(c.argv, 1, Len(args))
      [] c.by = "runMergeWithAI" ->
            Strip(c.argv, 1, Len(args) + 1) \o <<Last(c.argv)>>
      [] c.by = "executeGitCommitWithFlags" -> Strip(c.argv, 1, 0)

ShortBoolsSet ==
    {n \in DOMAIN flags :
        /\ ByName(Table(cmd), n).type = "bool"
        /\ ByName(Table(cmd), n).sh # ""
        /\ flags[n] = BoolTrue
        /\ n \notin AugmentationFlags(cmd)}

Occurs(tok, v) == \E i \in 1..Len(v) : v[i] = tok

\* C4: in every subcommand's reconstructed vector (commit included), a
\* boolean flag with a one-character shorthand that was explicitly set to
\* true appears in its short form and never in its long form.
C4_ShortFormForBooleans ==
    \A i \in 1..Len(gitCalls) :
        gitCalls[i].by \in FlagBuiltFns =>
            \A n \in ShortBoolsSet :
                LET body == FlagPartAsClaimed(gitCalls[i])
                IN  /\ Occurs(Short(ByName(Table(cmd), n).sh), body)
                    /\ ~Occurs(Long(n), body)

\* C5: reconstruction is an idempotent round trip: parsing a passthrough
\* vector with the same command's flag table succeeds and reconstructing
\* from the result yields the same vector, also when positional arguments
\* begin with '-' or coincide with flag names.
C5_RoundTrip ==
    \A i \in 1..Len(gitCalls) :
        gitCalls[i].by \in PassthroughFns =>
            LET P == Parse(cmd, Tail(gitCalls[i].argv))
            IN  /\ ~P.err
                /\ PassthroughArgs(cmd, P.set, P.args) = gitCalls[i].argv

\* the round trip for the runs none of whose positional arguments begins
\* with '-'
C5_RoundTripPlainPositionals ==
    \A i \in 1..Len(gitCalls) :
        (gitCalls[i].by \in PassthroughFns
            /\ \A k \in 1..Len(args) : ~IsPrefix(<<"-">>, args[k])) =>
            LET P == Parse(cmd, Tail(gitCalls[i].argv))
            IN  /\ ~P.err
                /\ PassthroughArgs(cmd, P.set, P.args) = gitCalls[i].argv

EndsWith(v, suffix) ==
    Len(suffix) <= Len(v)
        /\ SubSeq(v, Len(v) - Len(suffix) + 1, Len(v)) = suffix

ReconstructionFns ==
    FlagBuiltFns \cup {"getGitDiffOutput", "getGitLogOutput"}

TwentyLimit == <<"-", "2", "0">>

NativeAddFlags ==
    Names(addFlags) \ (AugmentationFlags("add") \cup PersistentFlagNames)

\* the invocations the bypass policy names
BypassInvocation ==
    \/ /\ cmd = "commit"
       /\ FlagValue(flags, "message") # <<>> \/ FlagTrue(flags, "no-ai")
    \/ /\ cmd = "add"
       /\ Len(args) > 0 \/ DOMAIN flags \cap NativeAddFlags # {}
       /\ ~FlagTrue(flags, "ai")

\* the run ended before the routing decision: outside a repository, or the
\* staging that commit -a does first failed
EndedBeforeRouting ==
    /\ exitCode = 1
    /\ LastOut({"Error: not a git repository",
                      "Error: error staging files with -a"})

\* C7: when commit is invoked with non-empty message text or --no-ai, and
\* when add is invoked with file arguments or a native git add flag and
\* without --ai, no LLM request is issued, no setup is triggered, and a run
\* that reaches the routing decision ends by executing the reconstructed
\* git command as the passthrough.
C7_BypassPolicy ==
    BypassInvocation =>
        /\ llmCalls = <<>>
        /\ setupRuns = 0
        /\ (Done /\ ~EndedBeforeRouting) =>
              /\ gitCalls # <<>>
              /\ Last(gitCalls) = GitCall(PassthroughArgs(cmd, flags, args),
                                          PassthroughBy(cmd))

C7_Witness ==
    /\ Done /\ cmd = "commit"
    /\ FlagTrue(flags, "no-ai") /\ FlagTrue(flags, "ai")
    /\ apiKey = ""
    /\ LastCallBy({"executeGitCommitPassthrough"})

\* the staged-changes query was the last git command and reported no
\* staged changes
NoStagedChanges ==
    /\ LastCallBy({"hasUncommittedChanges"})
    /\ gitExit.started /\ gitExit.code = 0

IsCommitCall(c) == c.argv # <<>> /\ c.argv[1] = Str("commit")

\* C8: when commit runs on its AI path and the staged-changes query reports
\* no staged changes, the command prints the nothing-to-commit message and
\* exits 0 without any LLM request, without setup and without git commit.
C8_NothingToCommit ==
    NoStagedChanges =>
        /\ Done /\ exitCode = 0
        /\ LastOut({"No changes to commit"})
        /\ llmCalls = <<>>
        /\ setupRuns = 0
        /\ \A i \in 1..Len(gitCalls) : ~IsCommitCall(gitCalls[i])

C8_Witness ==
    /\ NoStagedChanges /\ Done
    /\ FlagTrue(flags, "all")
    /\ apiKey = ""
    /\ LastOut({"No changes to commit"})

\* a captured query succeeded and returned nothing but white space
EmptyCapture(fn) ==
    /\ LastCallBy({fn}) /\ RunOk(gitExit)
    /\ \A i \in 1..Len(loc.captured) : loc.captured[i] = " "

NoUntrackedFiles ==
    LastCallBy({"getUntrackedFiles"}) /\ RunOk(gitExit)
        /\ loc.untracked = <<>>

\* merge on its AI path came to the target test without a target ref
NoMergeTarget ==
    /\ cmd = "merge" /\ Len(args) = 0
    /\ FlagTrue(flags, "ai-help") \/ FlagTrue(flags, "ai-message")
    /\ apiKey # ""
    /\ Done /\ ~LastOut({"Error: not a git repository"})

NothingToDoMessages ==
    {"No changes to commit", "No changes found", "No untracked files found",
     "No commits found"}

FinalizingFns ==
    {"executeGitCommitWithFlags", "executeGitAdd", "runMergeWithAI",
     "runMergeWithAI.commit", "commitMergeWithAIMessage"}

\* the git queries that gather context for a request
ContextFns ==
    {"getGitDiff", "getGitDiffOutput", "getGitLogOutput", "getUntrackedFiles",
     "getCurrentBranch", "getRecentCommits", "getEnhancedFileList",
     "getMergeConflicts", "commitMergeWithAIMessage.log"}

CalledAny(fns) == \E i \in 1..Len(gitCalls) : gitCalls[i].by \in fns

\* the part of C10 that the amendment keeps: no request carries an empty
\* credential, and the setup an AI path starts comes before context
\* gathering, request and finalizing command
NoRequestWithoutCredential ==
    /\ \A i \in 1..Len(llmCalls) : llmCalls[i].key # ""
    /\ (pc = "setup" /\ loc.ret = "ensure") =>
          /\ apiKey = ""
          /\ llmCalls = <<>>
          /\ ~CalledAny(ContextFns \cup FinalizingFns)
    /\ (CalledAny(ContextFns) /\ ~FlagTrue(flags, "force-ai")) => apiKey # ""

SetupLeftKeyEmpty ==
    Done /\ cmd \in FlagCommands /\ setupRuns > 0 /\ apiKey = ""

\* C10 as stated: no LLM request is sent while the credential is empty; a
\* missing credential triggers setup before context gathering and request;
\* if the credential is still empty after setup the run ends with an error
\* and a nonzero exit, without LLM request or finalizing git command.
C10_CredentialBeforeRequest ==
    /\ NoRequestWithoutCredential
    /\ SetupLeftKeyEmpty =>
          /\ exitCode # 0
          /\ llmCalls = <<>>
          /\ ~CalledAny(FinalizingFns)

\* C10 amended: as stated, except that a run whose credential is still
\* empty after setup ends with an error and exit code 1 when setup
\* returned, and with exit code 0 when the user interrupted setup.
C10_CredentialBeforeRequestAmended ==
    /\ NoRequestWithoutCredential
    /\ SetupLeftKeyEmpty =>
          /\ \/ /\ exitCode = 1
                /\ LastOut({"Error: configuration setup failed or was cancelled"})
             \/ /\ exitCode = 0
                /\ LastOut({"Configuration cancelled by user"})
          /\ llmCalls = <<>>
          /\ ~CalledAny(FinalizingFns)

C10_Witness ==
    /\ SetupLeftKeyEmpty
    /\ cmd = "diff"
    /\ exitCode = 1
    /\ LastOut({"Error: configuration setup failed or was cancelled"})

\* the git query that tests the task precondition of a command's AI path
PreconditionFn(c) ==
    CASE c = "commit" -> "hasUncommittedChanges"
      [] c = "diff" -> "getGitDiffOutput"
      [] c = "log" -> "getGitLogOutput"
      [] c = "add" -> "getUntrackedFiles"
      [] OTHER -> ""

\* the run stands in the credential setup that an AI path started
InSetupOfAIPath == pc = "setup" /\ loc.ret = "ensure"

\* C11: on every AI path (commit, diff, log, merge, add) the precondition
\* check precedes the configuration check, which precedes context gather,
\* generate, resolve and finalize; so a run that ends as nothing-to-do never
\* started the interactive credential setup.
C11_PreconditionBeforeConfiguration ==
    /\ (InSetupOfAIPath /\ PreconditionFn(cmd) # "")
           => CalledAny({PreconditionFn(cmd)})
    /\ InSetupOfAIPath
           => (llmCalls = <<>> /\ ~CalledAny(FinalizingFns))
    /\ (Done /\ LastOut(NothingToDoMessages)) => setupRuns = 0

\* the merge attempt failed and the unmerged-paths query returned paths
ConflictsFound ==
    /\ cmd = "merge"
    /\ CalledAny({"getMergeConflicts"})
    /\ loc.conflicts # <<>>

\* the paths reach the user: none of the messages of the conflict branch
\* carries them, so they do only through the guidance request, whose answer
\* is printed
Surfaced(paths) ==
    \E i \in 1..Len(llmCalls) :
        /\ llmCalls[i].task = "merge-conflict-guidance"
        /\ llmCalls[i].conflictInfo = paths

\* what the conflict branch does apart from surfacing the paths: no commit,
\* the manual-resolution instructions, exit 0, and only a warning when the
\* guidance request fails
ConflictOutcome ==
    /\ exitCode = 0
    /\ LastOut({Instructions})
    /\ ~CalledAny({"runMergeWithAI.commit", "commitMergeWithAIMessage"})
    /\ \A i \in 1..Len(gitCalls) : ~IsCommitCall(gitCalls[i])
    /\ llmCalls # <<>> => /\ FlagTrue(flags, "ai-help")
                          /\ Len(llmCalls) = 1
                          /\ llmCalls[1].conflictInfo = loc.conflicts

\* C13: on the merge AI path, when the no-commit merge attempt fails and the
\* unmerged-paths query returns a non-empty list, exactly those paths are
\* surfaced, with or without --ai-help; no commit is invoked, the
\* manual-resolution instructions are printed and the run exits 0; a failed
\* guidance request only adds a warning.
C13_ConflictsSurfaced ==
    (ConflictsFound /\ Done) =>
        /\ Surfaced(loc.conflicts)
        /\ ConflictOutcome

\* the part of C13 that holds: the outcome of the conflict branch
C13_ConflictOutcomeHolds ==
    (ConflictsFound /\ Done) => ConflictOutcome

\* the run commits, or is about to commit, with the message msg
CommitsWith(msg) ==
    /\ loc.finalMessage = msg
    /\ \/ pc = "commit_final"
       \/ /\ Done
          /\ LastCallBy({"executeGitCommitWithFlags"})
          /\ Last(gitCalls).argv = CommitWithFlagsArgs(msg, flags)

\* the run ended with exit code 0 and made no commit
NoCommitExitZero ==
    /\ Done /\ exitCode = 0
    /\ \A i \in 1..Len(gitCalls) : ~IsCommitCall(gitCalls[i])

\* C12: in the resolve step of commit exactly one mode applies, interactive
\* before skip-editor before the editor.  Editor mode commits with the
\* post-edit text and makes no commit (exit 0) when that text is empty;
\* skip-editor mode commits with the generated text unmodified only after
\* y or yes and otherwise makes no commit (exit 0); interactive mode commits
\* with the typed text when non-empty and with the generated text when the
\* user enters nothing.
C12_ResolveModes ==
    loc.mode # "" =>
        /\ loc.mode = (IF FlagTrue(flags, "interactive") THEN "interactive"
                       ELSE IF FlagTrue(flags, "skip-editor")
                       THEN "skip-editor" ELSE "editor")
        /\ (loc.mode = "editor" /\ ~loc.editorErr) =>
              IF loc.userInput = <<>> THEN NoCommitExitZero
              ELSE CommitsWith(loc.userInput)
        /\ loc.mode = "skip-editor" =>
              IF loc.userInput \in {"y", "yes"}
              THEN CommitsWith(loc.generated)
              ELSE NoCommitExitZero
        /\ loc.mode = "interactive" =>
              IF loc.userInput # <<>> THEN CommitsWith(loc.userInput)
              ELSE CommitsWith(loc.generated)

C12_Witness ==
    /\ Done /\ cmd = "commit"
    /\ FlagTrue(flags, "interactive") /\ FlagTrue(flags, "skip-editor")
    /\ loc.mode = "interactive"
    /\ loc.userInput = Str("typed") /\ loc.generated = Str("gen")
    /\ CommitsWith(Str("typed"))

\* C16: TruncateToWordLimit(text, N) returns the text unchanged, without
\* marker, and reports its word count when the text has at most N words;
\* otherwise it returns exactly the first N words of the text, in order,
\* followed by the fixed truncation marker, and reports N.
C16_TruncateToWordLimit ==
    (lib.fn = "TruncateToWordLimit" /\ lib.returned) =>
        LET words == Fields(lib.text)
            r == lib.result
        IN  IF Len(words) <= lib.maxWords
            THEN r.text = lib.text /\ r.count = Len(words)
            ELSE /\ r.count = lib.maxWords
                 /\ EndsWith(r.text, TruncationMarker)
                 /\ Fields(Strip(r.text, 0, Len(TruncationMarker)))
                        = SubSeq(words, 1, lib.maxWords)

C16_Witness ==
    /\ lib.fn = "TruncateToWordLimit" /\ lib.returned
    /\ lib.text = <<" ", "a", " ", "b">>
    /\ lib.maxWords = 1
    /\ lib.result.text = <<"a">> \o TruncationMarker

\* C17: the combined word count SplitContent returns never exceeds
\* MaxInputWords, whatever the sizes of the sections (a branch section that
\* alone reaches the budget included); and when the four sections together
\* have at most MaxInputWords words, all four are returned unchanged.
C17_SplitWithinBudget ==
    (lib.fn = "SplitContent" /\ lib.returned) =>
        LET r == lib.result
            sum == CountWords(lib.diff) + CountWords(lib.branch)
                       + CountWords(lib.recentCommits)
                       + CountWords(lib.fileList)
        IN  /\ r.total <= MaxInputWords
            /\ sum <= MaxInputWords =>
                  /\ r.diff = lib.diff
                  /\ r.branch = lib.branch
                  /\ r.recentCommits = lib.recentCommits
                  /\ r.fileList = lib.fileList

\* the part of C17 that holds: sections within the budget come back
\* unchanged, and the reported total is within the budget whenever the
\* branch section alone is below it
C17_SplitWithinBudgetSmallBranch ==
    (lib.fn = "SplitContent" /\ lib.returned) =>
        LET r == lib.result
            sum == CountWords(lib.diff) + CountWords(lib.branch)
                       + CountWords(lib.recentCommits)
                       + CountWords(lib.fileList)
        IN  /\ CountWords(lib.branch) < MaxInputWords
                  => r.total <= MaxInputWords
            /\ sum <= MaxInputWords =>
                  /\ r.diff = lib.diff
                  /\ r.branch = lib.branch
                  /\ r.recentCommits = lib.recentCommits
                  /\ r.fileList = lib.fileList
                  /\ r.total = sum

\* C14: for every AI task, when the effective language is a supported code
\* other than the default, the prompt sent to the LLM begins with the
\* directive naming that language; when it is the default (en), the prompt
\* is sent without any directive.
C14_LanguageDirective ==
    (lib.fn = "prompt" /\ lib.returned) =>
        IF lib.language # DefaultLanguage
        THEN IsPrefix(Directive(LanguageName(lib.language)), lib.prompt)
        ELSE lib.prompt = Body(lib.task)

\* the part of C14 that holds: the tasks other than stage-decision and
\* log-analysis
C14_LanguageDirectiveOtherTasks ==
    (lib.fn = "prompt" /\ lib.returned
         /\ lib.task \notin {"stage-decision", "log-analysis"}) =>
        IF lib.language # DefaultLanguage
        THEN lib.prompt = Directive(LanguageName(lib.language))
                              \o Body(lib.task)
        ELSE lib.prompt = Body(lib.task)

\* a code as the resolution reads it: trimmed and in lower case
Normalized(code) == ToLower(TrimSpace(code))

\* the code the user supplied: the flag, or the configuration without flag
Supplied == IF lib.langFlag # <<>> THEN lib.langFlag ELSE lib.configLang

\* C15: the --lang flag takes precedence over the configured language; the
\* resolved language is always a supported code; and whenever the supplied
\* code, from the flag or from the configuration, is unrecognized, the
\* result is the default en and a warning is emitted.
C15_LanguageResolution ==
    (lib.fn = "prompt" /\ lib.returned) =>
        /\ lib.language \in ValidCodes
        /\ (lib.langFlag # <<>> /\ Normalized(lib.langFlag) \in ValidCodes)
               => lib.language = Normalized(lib.langFlag)
        /\ (Supplied # <<>> /\ Normalized(Supplied) \notin ValidCodes)
               => (lib.language = DefaultLanguage /\ lib.warned)

\* the part of C15 that holds: precedence, a supported result, the default
\* for an unrecognized code, and the warning for an unrecognized flag only
C15_LanguageResolutionFlagWarning ==
    (lib.fn = "prompt" /\ lib.returned) =>
        /\ lib.language \in ValidCodes
        /\ (lib.langFlag # <<>> /\ Normalized(lib.langFlag) \in ValidCodes)
               => lib.language = Normalized(lib.langFlag)
        /\ (Supplied # <<>> /\ Normalized(Supplied) \notin ValidCodes)
               => lib.language = DefaultLanguage
        /\ lib.warned <=> (lib.langFlag # <<>>
                              /\ Normalized(lib.langFlag) \notin ValidCodes)

(* C18 *)

\* the positions of sub in text
Occurrences(text, sub) ==
    {i \in 1..Len(text) :
        /\ i + Len(sub) - 1 =< Len(text)
        /\ SubSeq(text, i, i + Len(sub) - 1) = sub}

\* text holds a complete pair: <think> with </think> somewhere after it
HasPair(text) ==
    \E i \in Occurrences(text, OpenTag) :
        \E j \in Occurrences(text, CloseTag) : i < j

CleanReturned == lib.fn = "cleanResponse" /\ lib.returned

\* the text with the part from position i to position j - 1 cut out
Cut(text, i, j) == SubSeq(text, 1, i - 1) \o SubSeq(text, j, Len(text))

\* C18: cleanResponse is idempotent; no complete <think>...</think> pair is
\* left in what it returns, however many there were and whether or not they
\* only formed after an earlier removal; a text without a complete pair, an
\* unterminated <think> included, is returned unstripped (only trimmed); and
\* a text whose only pair is its first <think> up to the first </think>
\* after it is returned with exactly that part cut out.
C18_CleanResponse ==
    CleanReturned =>
        /\ cleanResponse(lib.result) = lib.result
        /\ ~HasPair(lib.result)
        /\ ~HasPair(lib.content) => lib.result = TrimSpace(lib.content)
        /\ HasPair(lib.content) =>
               LET open  == CHOOSE i \in Occurrences(lib.content, OpenTag) :
                                \A k \in Occurrences(lib.content, OpenTag) :
                                    i =< k
                   close == CHOOSE j \in Occurrences(lib.content, CloseTag) :
                                /\ open < j
                                /\ \A k \in Occurrences(lib.content, CloseTag) :
                                       open < k => j =< k
                   rest  == Cut(lib.content, open, close + Len(CloseTag))
               IN  ~HasPair(rest) => lib.result = TrimSpace(rest)

\* a pair that only forms after an earlier removal is removed as well
C18_Witness ==
    /\ CleanReturned
    /\ lib.content = <<"<">> \o OpenTag \o CloseTag \o <<"think>">> \o CloseTag
    /\ lib.result = <<>>

\* two pairs with text around them
C18_WitnessTwoPairs ==
    /\ CleanReturned
    /\ lib.content = OpenTag \o CloseTag \o <<"x">> \o OpenTag \o CloseTag
    /\ lib.result = <<"x">>

\* text from an unterminated <think> onward stays
C18_WitnessUnterminated ==
    /\ CleanReturned
    /\ lib.content = OpenTag \o CloseTag \o <<"x">> \o OpenTag \o <<"x">>
    /\ lib.result = <<"x">> \o OpenTag \o <<"x">>

(* C19, C20 *)

\* the line starts with "data: "
StartsWithData(line) == line.prefix = "data: "

IsSentinel(line) == StartsWithData(line) /\ line.kind = "done"

\* the lines before the first sentinel
BeforeSentinel(ls) ==
    LET at == {k \in 1..Len(ls) : IsSentinel(ls[k])}
    IN  IF at = {} THEN ls
        ELSE SubSeq(ls, 1, (CHOOSE k \in at : \A m \in at : k =< m) - 1)

\* the line is an event that carries content
CarriesContent(line) ==
    /\ StartsWithData(line)
    /\ line.kind = "event"
    /\ line.choices > 0
    /\ line.content # <<>>

\* the contents that arrive with lines ls, in the order of arrival
Arrivals(ls) ==
    LET events == SelectSeq(BeforeSentinel(ls), CarriesContent)
    IN  [k \in 1..Len(events) |-> events[k].content]

InStream == lib.fn = "GenerateResponseStream"

StreamReturned == InStream /\ lib.returned /\ ~lib.err

\* C19: whatever chunks the response text is split into, markers split
\* across chunks included, the text GenerateResponseStream returns is the
\* text GenerateResponse returns for a response that carries the
\* concatenation of the chunks.
C19_StreamAgreesWithBlocking ==
    StreamReturned =>
        lib.result = GenerateResponse(Flatten(Arrivals(lib.lines)))

\* <think> arrives split over two chunks and is removed with its block
C19_Witness ==
    /\ StreamReturned
    /\ Arrivals(lib.lines) = <<Str("<"), Str("think>"), CloseTag, Str("x")>>
    /\ lib.result = Str("x")

\* what was written to the output between the label and the final newline
Displayed ==
    LET body == IF lib.returned /\ ~lib.err
                THEN SubSeq(lib.printed, 1, Len(lib.printed) - 1)
                ELSE lib.printed
    IN  IF body = <<>> THEN <<>> ELSE Tail(body)

\* C20: at every point of the consumption of a stream, the chunks displayed
\* so far are the contents of the events consumed so far that start with
\* "data: ", are valid JSON, carry content and come before the sentinel
\* [DONE], in the order of arrival, and the accumulator is their
\* concatenation; lines without the prefix and invalid payloads change
\* nothing and do not end the stream; no line after the sentinel is consumed.
C20_StreamConsumption ==
    InStream =>
        LET seen == SubSeq(lib.lines, 1, lib.i)
        IN  /\ Displayed = Arrivals(seen)
            /\ lib.fullContent = Flatten(Arrivals(seen))
            /\ (lib.printed # <<>> /\ Head(lib.printed) = GeneratedLabel)
                   <=> Arrivals(seen) # <<>>
            /\ seen = BeforeSentinel(seen)
                   \/ (lib.ended /\ seen = Append(BeforeSentinel(seen),
                                                  lib.lines[lib.i]))
            /\ lib.ended <=> (lib.i > 0 /\ IsSentinel(lib.lines[lib.i]))
            /\ lib.returned =>
                   /\ lib.ended \/ lib.i = Len(lib.lines)
                   /\ lib.err <=> (~lib.ended /\ lib.readErr)
                   /\ ~lib.err => Last(lib.printed) = <<"\n">>

\* an invalid payload is skipped, the event after it is displayed, and the
\* event after the sentinel is not
C20_Witness ==
    /\ StreamReturned
    /\ lib.lines = <<Line("data: ", "invalid", 0, <<>>),
                     Line("data: ", "event", 1, Str("x")),
                     Line("data: ", "done", 0, <<>>),
                     Line("data: ", "event", 1, Str(" "))>>
    /\ lib.printed = <<GeneratedLabel, Str("x"), <<"\n">>>>
    /\ lib.result = Str("x")

\* a line without the prefix is ignored
C20_WitnessNoPrefix ==
    /\ StreamReturned
    /\ lib.lines = <<Line("data:", "event", 1, Str("x"))>>
    /\ lib.printed = <<<<"\n">>>>
    /\ lib.result = <<>>

(* C21 *)

\* a spinner frame was written after the line was cleared by Stop
FrameAfterClear ==
    \E i, j \in 1..Len(lib.terminal) :
        /\ i < j
        /\ lib.terminal[i] = "clear"
        /\ lib.terminal[j] = "frame"

\* C21: under every interleaving of the spinner task and the main flow, no
\* spinner frame is written once Stop has returned: no frame follows the
\* clearing of the line, so none stands after the label or between the
\* streamed chunks.
C21_NoFrameAfterStop ==
    InSpinner => ~FrameAfterClear

(* C22 *)

\* C22: on every path by which GenerateResponseStream returns, Stop has
\* been called on the spinner that was started before the request.
C22_StopOnEveryReturn ==
    (InSpinner /\ lib.main = "returned") => lib.stopCalled

\* on the paths where Stop is called (request error, status, first chunk),
\* it was called before the return
C22_StopOnErrorAndFirstChunk ==
    (InSpinner /\ lib.main = "returned"
        /\ (lib.outcome # "stream" \/ ~lib.firstChunk)) => lib.stopCalled

(* C23 *)

\* a request to the LLM failed in this invocation
TransportFailed == pc = "done" /\ loc.llmErrs > 0

\* C23: an invocation in which a request to the LLM fails ends with a
\* nonzero exit code, an error message last, and no request after the one
\* that failed, for add, commit, diff, log and merge.
C23_TransportFailureFatal ==
    TransportFailed =>
        /\ exitCode # 0
        /\ loc.llmErrs = 1
        /\ Len(llmCalls) = 1

\* the failure is fatal on the paths of commit, diff and log and on the
\* merge-message path
C23_TransportFailureFatalCommitDiffLog ==
    (TransportFailed
        /\ (cmd \in {"commit", "diff", "log"} \/ loc.conflicts = <<>>)
        /\ cmd # "add") =>
        /\ exitCode = 1
        /\ loc.llmErrs = 1
        /\ Len(llmCalls) = 1

(* C24 *)

\* the three settings resolved by the prompts
Resolved == Config(lib.apiKeyStr, lib.modelName, lib.language)

\* C24: the file holds what it held before the setup, or, after a save, the
\* three settings resolved by the three prompts, written together; the
\* settings in memory change only after the third prompt, all three at
\* once; a setup that ends before the third prompt is answered (interrupt,
\* read error, empty credential) leaves the settings in memory and the file
\* as they were.
C24_NoPartialConfiguration ==
    InSetup =>
        /\ lib.file = lib.fileBefore
               \/ (lib.ending = "saved" /\ lib.answered = 3
                       /\ lib.file = Resolved)
        /\ lib.settings = lib.existing
               \/ (lib.answered = 3 /\ lib.settings = Resolved)
        /\ lib.ending = "saved" => lib.file = Resolved /\ lib.settings = Resolved
        /\ (lib.at = "exit" /\ lib.answered < 3) =>
               /\ lib.ending \in {"cancelled", "returned"}
               /\ lib.settings = lib.existing
               /\ lib.file = lib.fileBefore

\* an interrupt at the language prompt, after a new key and a new model were
\* typed over an existing configuration, leaves settings and file untouched
C24_Witness ==
    /\ InSetup
    /\ lib.ending = "cancelled"
    /\ lib.apiKeyStr = "k1" /\ lib.modelName = "m1"
    /\ lib.existing = Config("k0", "m0", Code("k", "o"))
    /\ lib.answered = 2
    /\ lib.settings = lib.existing
    /\ lib.file = lib.fileBefore

\* a completed setup writes the three settings together
C24_WitnessSaved ==
    /\ InSetup
    /\ lib.ending = "saved"
    /\ lib.existing.key = ""
    /\ lib.file = Config("k1", defaultModel, DefaultLanguage)

(* C25, C26 *)

\* the files of the git add calls of executeGitAdd
AddCalls == SelectSeq(gitCalls, LAMBDA c : c.by = "executeGitAdd")

Staged == UNION {{c.argv[k] : k \in 2..Len(c.argv)} :
                    c \in {AddCalls[i] : i \in 1..Len(AddCalls)}}

Named == {args[k] : k \in 1..Len(args)}

Analyzed == {loc.seen[k].file : k \in 1..Len(loc.seen)}

\* C25: when add runs with file arguments and --ai, the files analysed are
\* files named on the command line and only named files are staged.
C25_NamedFilesOnly ==
    (cmd = "add" /\ Len(args) > 0 /\ FlagTrue(flags, "ai")) =>
        /\ Analyzed \subseteq Named
        /\ Staged \subseteq Named

\* with file arguments and --ai the files analysed and staged are files
\* that git ls-files reports as untracked
C25_UntrackedFilesOnly ==
    (cmd = "add" /\ Len(args) > 0 /\ FlagTrue(flags, "ai")) =>
        /\ Analyzed \subseteq {loc.untracked[k] : k \in 1..Len(loc.untracked)}
        /\ Staged \subseteq Analyzed

\* what loc.seen holds about a file
SeenOf(f) == {loc.seen[k] : k \in {j \in 1..Len(loc.seen) : loc.seen[j].file = f}}

\* the safety of the add AI path but for the condition on the answer
AddSafety(Accepted(_)) ==
    /\ Len(AddCalls) =< 1
    /\ \A f \in Staged :
          /\ f \in {loc.untracked[k] : k \in 1..Len(loc.untracked)}
          /\ \A e \in SeenOf(f) :
                /\ e.kind \notin {"binary", "large"}
                /\ FlagTrue(flags, "force-ai") \/ Accepted(e.answer)
          /\ SeenOf(f) # {}
    /\ FlagTrue(flags, "dry-run-ai") => Len(AddCalls) = 0
    /\ (pc = "done" /\ loc.response \notin {"y", "yes", "none"})
           => Len(AddCalls) = 0
    /\ loc.filesToAdd = <<>> => Len(AddCalls) = 0
    /\ FlagTrue(flags, "force-ai") => llmCalls = <<>>

\* C26 as stated: on the add AI path git add runs at most once, only with
\* untracked files that are not binary, not large and were accepted by an
\* answer that begins with YES: or taken in force mode; never in
\* --dry-run-ai mode, after an answer other than y/yes, or with an empty
\* selection; an unclear answer or an error excludes the file; force mode
\* sends no request.
C26_AddSafetyYesOnly ==
    (cmd = "add" /\ loc.untracked # <<>>) =>
        AddSafety(LAMBDA answer : answer = "YES:")

\* C26, amended: the same with an answer that begins with YES: in any
\* letter case (yes:, Yes:), as the answer is upper-cased before the test.
C26_AddSafety ==
    (cmd = "add" /\ loc.untracked # <<>>) =>
        AddSafety(LAMBDA answer : AnswerUpper(answer) = "YES:")

\* two files analysed, one accepted and one unclear, confirmed with y: git
\* add runs once with the accepted file only
C26_Witness ==
    /\ pc = "done" /\ cmd = "add"
    /\ Len(loc.seen) = 2
    /\ loc.seen[1].answer = "unclear"
    /\ loc.seen[2].answer = "YES:"
    /\ loc.response = "y"
    /\ Len(AddCalls) = 1
    /\ Staged = {Str("u2")}

(* C27 *)

LogReturned == lib.fn = "getGitLogOutput" /\ lib.returned

DefaultLimit == <<"-", "2", "0">>

\* -20 was appended to the forwarded command line
DefaultAppended ==
    lib.result = Append(LogPassthroughArgs(lib.flags, lib.args), DefaultLimit)

\* the user gave a commit count with -n / --number
NumberFlagSet ==
    "number" \in DOMAIN lib.flags /\ lib.flags["number"] # <<>>

\* C27 as stated: -20 is appended exactly when the user set no commit
\* count with -n/--number, whatever else is forwarded.
C27_DefaultIffNoNumberFlag ==
    LogReturned => (DefaultAppended <=> ~NumberFlagSet)

\* the word begins with -n, --number or - and a digit
BeginsLikeLimit(w) ==
    /\ Len(w) >= 2
    /\ w[1] = "-"
    /\ w[2] = "n" \/ w[2] \in Digits \/ (Len(w) >= 3 /\ w[2] = "-" /\ w[3] = "number")

\* a word forwarded as an argument of its own: a positional argument or
\* the value of a flag that is forwarded in the form -s value
ForwardedWords ==
    {lib.args[k] : k \in 1..Len(lib.args)}
        \cup {lib.flags[n] : n \in DOMAIN lib.flags \cap {"since", "pretty"}}

\* C27, amended: the command line is the forwarded one, with -20 appended
\* at its end exactly when the user set no commit count with -n/--number
\* and no word forwarded as an argument of its own (a positional argument,
\* the value of -s or -p) begins with -n, --number or - and a digit.
C27_DefaultLimit ==
    LogReturned =>
        /\ lib.result = LogPassthroughArgs(lib.flags, lib.args)
               \/ DefaultAppended
        /\ DefaultAppended <=>
               ~(NumberFlagSet \/ \E w \in ForwardedWords : BeginsLikeLimit(w))

\* no -n, but a positional -5: the default is not appended
C27_Witness ==
    /\ LogReturned
    /\ "number" \notin DOMAIN lib.flags
    /\ "since" \notin DOMAIN lib.flags
    /\ lib.args = <<Str("HEAD"), <<"-", "5">>>>
    /\ ~DefaultAppended

\* no limit of any form: the default is appended
C27_WitnessDefault ==
    /\ LogReturned
    /\ lib.flags = ("ai-analysis" :> BoolTrue) @@ ("oneline" :> BoolTrue)
    /\ lib.args = <<Str("HEAD")>>
    /\ lib.result = <<Str("log"), Long("oneline"), Str("HEAD"), DefaultLimit>>

(* C28 *)

\* the calls of git commit -m made by executeGitCommitWithFlags
FinalCommits ==
    SelectSeq(gitCalls, LAMBDA c : c.by = "executeGitCommitWithFlags")

\* C28: on the commit AI path git commit -m is run only with a message that
\* is not empty, in all three resolve modes, also when the stream ended
\* without content or with a thinking block only.
C28_NoEmptyMessageCommitted ==
    \A k \in 1..Len(FinalCommits) : FinalCommits[k].argv[3] # <<>>

\* in editor mode an empty message aborts the commit
C28_NoEmptyMessageInEditorMode ==
    (Len(FinalCommits) > 0 /\ loc.mode = "editor") =>
        \A k \in 1..Len(FinalCommits) : FinalCommits[k].argv[3] # <<>>

(* C30 *)

\* the git subcommands that read the repository only
ReadOnlyGit == {"rev-parse", "diff", "branch", "log"}

\* a commit invocation on the AI path ended at or after the check for
\* staged changes and ran no git commit
EndedWithoutCommit ==
    /\ pc = "done" /\ cmd = "commit"
    /\ \E k \in 1..Len(gitCalls) : gitCalls[k].by = "hasUncommittedChanges"
    /\ \A k \in 1..Len(gitCalls) : gitCalls[k].argv[1] # Str("commit")

\* C30: a commit invocation that ends without running git commit (nothing
\* to commit, setup failure, generation error, confirmation declined, empty
\* edited message) has run only git commands that change nothing, for
\* every flag combination, -a/--all included.
C30_NoCommitNoStateChange ==
    EndedWithoutCommit =>
        \A k \in 1..Len(gitCalls) :
            \E g \in ReadOnlyGit : gitCalls[k].argv[1] = Str(g)

\* the same without -a/--all
C30_NoCommitNoStateChangeWithoutAll ==
    (EndedWithoutCommit /\ ~FlagTrue(flags, "all")) =>
        \A k \in 1..Len(gitCalls) :
            \E g \in ReadOnlyGit : gitCalls[k].argv[1] = Str(g)

(* C29 *)

\* C29: for a content that TruncateContent keeps within MaxInputWords, the
\* estimate of EstimateTokens (floor of 1.5 times the number of words) is
\* at most MaxInputTokens.
C29_WordBudgetWithinTokenBudget ==
    (lib.fn = "EstimateTokens" /\ lib.returned
        /\ lib.words =< SourceMaxInputWords) =>
        lib.result =< MaxInputTokens

\* the estimate of a content kept within MaxInputWords is at most 1.5 times
\* MaxInputWords
C29_EstimateWithinOneAndAHalf ==
    (lib.fn = "EstimateTokens" /\ lib.returned
        /\ lib.words =< SourceMaxInputWords) =>
        /\ lib.kept = lib.words
        /\ 2 * lib.result =< 3 * SourceMaxInputWords

=============================================================================
